---- MODULE Spec2Model ----
(***************************************************************************)
(* A model of virusseq/schema-migration.                                   *)
(*                                                                         *)
(*   SpecPQ, LiveSpecPQ : structures/promiseQueue.ts (PromiseQueue) on top *)
(*                        of structures/queue.ts (Queue).                  *)
(*   SpecTC             : migration/transform.ts (defineTransform and the  *)
(*                        TransformChain built by extendTransformChain).   *)
(*   SpecRes            : types/result.ts (failure, withResult,            *)
(*                        withResultAsync) and structures/pipe.ts.         *)
(*   SpecQu             : structures/queue.ts (Queue) used on its own,     *)
(*                        with items of any value.                         *)
(*                                                                         *)
(* Node runs callbacks to completion on one thread, so one action is one   *)
(* synchronous run of code: a call of add, or the continuation of          *)
(* attemptStart after its await.                                           *)
(***************************************************************************)
EXTENDS Integers, Sequences, FiniteSets, TLC

\* ------------------------------------------------------------------ bounds
\* Work items handed to PromiseQueue.add over one run.
MaxItems == 4
\* maxConcurrency is drawn from 1..MaxConc.
MaxConc == 2
\* Error listeners that get registered with onError.
MaxListeners == 2
\* Transforms in one argument list of createTransformChain, and in one chain.
MaxChain == 3
\* The totals a page response reports are drawn from 0..MaxTotal.
MaxTotal == 2
\* config.song.pageSize is drawn from 1..MaxPageSize.
MaxPageSize == 2
\* Page requests in one run: one more than a run with a page size of at least
\* one can make.
MaxFetches == MaxTotal + 1
\* Network calls made one after the other.
MaxCalls == 3
\* Calls made to one Ego client.
MaxCallers == 3
\* Studies getAvailableStudies lists.
MaxStudies == 5

VARIABLES
    \* PromiseQueue
    maxConcurrency,   \* the constructor's argument
    activeProcesses,  \* let activeProcesses
    queue,            \* Queue's array, oldest item first
    errorActions,     \* errorActions.length
    status,           \* per work item: where it is in its life
    events,           \* the listener events fired so far, in order
    thrown,           \* items whose attemptStart promise was rejected
    \* Transform chain
    tcPhase,          \* "idle", then "built" or "failed" after createTransformChain
    tcChain,          \* the transforms of the chain in hand
    tcOp,             \* the last call that returns a chain: its name and arguments
    tcRes,            \* the Result that call returned
    tcCall,           \* the last apply call: its transforms, input and outcome
    \* Result wrappers and pipes
    resCall,          \* the last call: what was called, on what, and its outcome
    \* A Queue on its own
    qArray,           \* const queue: T[], oldest item first
    qAddActions,      \* addActions: what each add listener does, in registration order
    qTakeActions,     \* takeActions.length
    qAdded,           \* how many times add was called
    qOut,             \* the last add or take: its result and the listener calls it made
    \* One run of migrateAndUpdateStudy; its limiter is the PromiseQueue above
    muPhase,          \* "idle", "fetching", "updating", then "done" or "aborted"
    muPageSize,       \* const pageSize
    muTotal,          \* let totalAnalyses
    muOffset,         \* let nextOffset
    muSummary,        \* const summary, its counts side by side with completed
    muOnce,           \* whether oneTimeLogger has run
    muAnalyses,       \* the analyses of the page fetched last
    muUpdates,        \* the sendAnalysisUpdate calls made for that page
    muFetches,        \* how many page requests were made
    muReturned,       \* the summary the run returned
    muLedger,         \* what has happened so far: pages received, the total the
                      \* last one reported, analyses found at or beyond the end
                      \* version, update promises resolved to a Success and to a
                      \* Failure, and whether every page so far reported one and
                      \* the same total and held the records from its offset on
    \* Network calls
    netCall,          \* the call made last
    netFetch,         \* the request that call has out
    netTimer,         \* the timer of its withTimeout: "none", "armed" or "fired"
    netResult,        \* what the call resolved to: "none" yet, "success" or "failure"
    netCache,         \* the ego client's let publicKey and let token (stored and valid)
    netCalls,         \* how many calls were made
    \* One Ego client and its callers
    egoPublicKey,     \* let publicKey: whether a key is stored
    egoToken,         \* let token: the request that gave it, whether it verifies
    egoCalls,         \* per caller: the function called, how far it got, its Result
    egoTokenGate,     \* the PromiseQueue of limitedGetToken
    egoKeyGate,       \* the PromiseQueue of limitedGetPublicKey
    egoRequests,      \* requests sent to the key and token endpoints so far, whether
                      \* a key request failed, the answer to the first token request
    \* One run of the program
    runPhase,         \* "idle", "secrets", "listing", "migrating", then "ended" or "exited"
    runListing,       \* what getAvailableStudies came to
    runStudies,       \* the study runs mapAsync asked for, in the order of the listing
    runGate,          \* the PromiseQueue of limitedMigrateStudy
    runLog,           \* what run() has logged
    runExit           \* the statuses process.exit was called with

pqVars == <<maxConcurrency, activeProcesses, queue, errorActions, status, events, thrown>>
tcVars == <<tcPhase, tcChain, tcOp, tcRes, tcCall>>
resVars == <<resCall>>
quVars == <<qArray, qAddActions, qTakeActions, qAdded, qOut>>
muVars == <<muPhase, muPageSize, muTotal, muOffset, muSummary, muOnce, muAnalyses, muUpdates,
           muFetches, muReturned, muLedger>>
netVars == <<netCall, netFetch, netTimer, netResult, netCache, netCalls>>
egoVars == <<egoPublicKey, egoToken, egoCalls, egoTokenGate, egoKeyGate, egoRequests>>
runVars == <<runPhase, runListing, runStudies, runGate, runLog, runExit>>
vars == <<pqVars, tcVars, resVars, quVars, muVars, netVars, egoVars, runVars>>
\* What the steps of one component leave alone.
notPqVars == <<tcVars, resVars, quVars, muVars, netVars, egoVars, runVars>>
notTcVars == <<pqVars, resVars, quVars, muVars, netVars, egoVars, runVars>>
notResVars == <<pqVars, tcVars, quVars, muVars, netVars, egoVars, runVars>>
notQuVars == <<pqVars, tcVars, resVars, muVars, netVars, egoVars, runVars>>
notMuVars == <<pqVars, tcVars, resVars, quVars, netVars, egoVars, runVars>>
notNetVars == <<pqVars, tcVars, resVars, quVars, muVars, egoVars, runVars>>
notEgoVars == <<pqVars, tcVars, resVars, quVars, muVars, netVars, runVars>>
notRunVars == <<pqVars, tcVars, resVars, quVars, muVars, netVars, egoVars>>
\* The run's limiter: what a run leaves alone of it, and the other components.
limiterRest == <<maxConcurrency, errorActions, status, events, thrown>>
notLimiterVars == <<tcVars, resVars, quVars, netVars, egoVars, runVars>>

Items == 1..MaxItems

\* The elements of a sequence.
Range(seq) == {seq[k] : k \in 1..Len(seq)}

\* ------------------------------------------------------------ Queue (queue.ts)

\* take with pop in place of shift: the newest item leaves first.
takeNewest(q) ==
    IF Len(q) > 0
    THEN [success |-> TRUE, data |-> q[Len(q)], rest |-> SubSeq(q, 1, Len(q) - 1)]
    ELSE [success |-> FALSE, data |-> 0, rest |-> q]

\* take that reads the oldest item and leaves it in the array.
takeKeeping(q) ==
    IF Len(q) > 0
    THEN [success |-> TRUE, data |-> Head(q), rest |-> q]
    ELSE [success |-> FALSE, data |-> 0, rest |-> q]

\* if (item): an item is a number here, and 0 stands for the values that
\* JavaScript takes for false (0, '', false, null, undefined).
Truthy(item) == item # 0

\* take: shift the oldest item and return it if it is truthy, a Failure
\* otherwise (shift gives undefined on an empty array). rest is the array after
\* the call.
take(q) ==
    IF Len(q) > 0 /\ Truthy(Head(q))
    THEN [success |-> TRUE, data |-> Head(q), rest |-> Tail(q)]
    ELSE [success |-> FALSE, data |-> 0, rest |-> IF Len(q) > 0 THEN Tail(q) ELSE q]

\* add: push at the tail (the add listeners run in the caller, see Add).
queueAdd(q, item) == Append(q, item)

\* ----------------------------------------------------- Result (types/result.ts)

\* One error string: its text and what was interpolated into it.
Msg(text, index, types) == [text |-> text, index |-> index, types |-> types]

\* String(x) for the parts of an error list; the parts are modelled as Msg.
unknownToString(x) == x

success(data) == [success |-> TRUE, data |-> data, errors |-> <<>>]

failure(parts) ==
    [success |-> FALSE, data |-> <<>>,
     errors |-> [k \in 1..Len(parts) |-> unknownToString(parts[k])]]

\* ------------------------------------------- Analysis and AnalysisType (types.ts)

T1 == [name |-> "cs", version |-> 1]
T2 == [name |-> "cs", version |-> 2]
T3 == [name |-> "other", version |-> 2]
Types == {T1, T2, T3}
\* What reading a property of undefined gives: nothing, the read throws.
NoType == [name |-> "undefined", version |-> 0]

\* An analysis: analysisType, content (trace: the transformers that have
\* rewritten it) and, since the schema lets unknown keys through, possibly a
\* boolean "success" key with "data" (an analysis of type inner) or "errors";
\* wrap "invalid" stands for content that no transform's input schema accepts.
Rec(type, trace, wrap, inner) ==
    [analysisType |-> type, trace |-> trace, wrap |-> wrap, inner |-> inner]
Plain(type) == Rec(type, <<>>, "none", type)
NoRecord == Rec(NoType, <<>>, "none", NoType)
Inputs ==
    {Plain(ty) : ty \in Types}
    \cup {Rec(ty, <<>>, "success", i) : ty \in Types, i \in Types}
    \cup {Rec(ty, <<>>, "failure", ty) : ty \in Types}

\* asResult: a value with a boolean success key is taken to be a Result: a
\* Result is, and so is an analysis with such a key, whatever its other keys.
asResult(input) ==
    IF "success" \in DOMAIN input THEN input
    ELSE CASE input.wrap = "success" -> success(Plain(input.inner))
           [] input.wrap = "failure" -> failure(<<Msg("input.errors", -1, <<>>)>>)
           [] input.wrap = "failure, no errors" -> [success |-> FALSE, data |-> <<>>]
           [] OTHER -> success(input)

\* --------------------------------------------- Transform (migration/transform.ts)

\* _.isEqual on two AnalysisType objects.
isEqual(a, b) == a.name = b.name /\ a.version = b.version

\* What a caller hands to defineTransform as transformer:
\*   ok      returns success of a rewritten copy, its analysisType untouched
\*   mutate  rewrites its argument in place and returns success of it
\*   fail    returns a Failure
\*   throw   throws
\*   validate  returns a Failure for an analysis whose content does not match
\*             its input schema, success of a rewritten copy otherwise
\* input is the argument object after the call.
transformer(t, input) ==
    LET rewritten == [input EXCEPT !.trace = Append(@, t)] IN
    CASE t.transformer = "ok" ->
            [threw |-> FALSE, res |-> success(rewritten), input |-> input]
      [] t.transformer = "mutate" ->
            [threw |-> FALSE, res |-> success(rewritten), input |-> rewritten]
      [] t.transformer = "fail" ->
            [threw |-> FALSE, res |-> failure(<<Msg("transformer failed", -1, <<>>)>>),
             input |-> input]
      [] t.transformer = "validate" ->
            IF input.wrap = "invalid"
            THEN [threw |-> FALSE,
                  res |-> failure(<<Msg("Provided analysis does not match the schema", -1, <<>>)>>),
                  input |-> input]
            ELSE [threw |-> FALSE, res |-> success(rewritten), input |-> input]
      [] OTHER ->
            [threw |-> TRUE, res |-> failure(<<Msg("transformer threw", -1, <<>>)>>),
             input |-> input]

defineTransform(start, end, kind) == [start |-> start, end |-> end, transformer |-> kind]

\* Transform.apply without its check of the input's analysisType.
transformApplyUnchecked(t, input) ==
    LET tr == transformer(t, input) IN
    IF tr.threw
    THEN [threw |-> TRUE, res |-> tr.res, input |-> tr.input, called |-> <<t>>]
    ELSE IF ~tr.res.success
    THEN [threw |-> FALSE,
          res |-> failure(<<Msg("Error applying transform", -1, <<>>),
                            Msg("versions", -1, <<t.start, t.end>>),
                            Msg("transformResult", -1, <<>>)>>),
          input |-> tr.input, called |-> <<t>>]
    ELSE [threw |-> FALSE,
          res |-> success([tr.res.data EXCEPT !.analysisType = t.end]),
          input |-> tr.input, called |-> <<t>>]

\* Transform.apply(input). called lists the transformers it invoked, input is
\* the argument object after the call.
transformApply(t, input) ==
    IF ~isEqual(input.analysisType, t.start)
    THEN [threw |-> FALSE,
          res |-> failure(<<Msg("Analysis type does not match expected input type", -1, <<>>)>>),
          input |-> input, called |-> <<>>]
    ELSE LET tr == transformer(t, input) IN
         IF tr.threw
         THEN [threw |-> TRUE, res |-> tr.res, input |-> tr.input, called |-> <<t>>]
         ELSE IF ~tr.res.success
         THEN [threw |-> FALSE,
               res |-> failure(<<Msg("Error applying transform", -1, <<>>),
                                 Msg("versions", -1, <<t.start, t.end>>),
                                 Msg("transformResult", -1, <<>>)>>),
               input |-> tr.input, called |-> <<t>>]
         ELSE [threw |-> FALSE,
               res |-> success([tr.res.data EXCEPT !.analysisType = t.end]),
               input |-> tr.input, called |-> <<t>>]

\* The transforms a caller may define: every version pair with a transformer
\* that succeeds, and three pairs with each of the other transformers.
Step == {<<T1, T2>>, <<T2, T3>>, <<T3, T1>>}
Transforms ==
    {defineTransform(s, e, "ok") : s \in Types, e \in Types}
    \cup {defineTransform(p[1], p[2], k) : p \in Step, k \in {"mutate", "fail", "throw"}}

\* ----------------------------------------------------- arrayUtils (sliceFrom/To)

RECURSIVE findIndex(_, _, _)
\* _.findIndex: the first position (from 1) at or after k whose element passes
\* the test, 0 when there is none. A test is a function from the elements to
\* BOOLEAN.
findIndex(array, test, k) ==
    IF k > Len(array) THEN 0
    ELSE IF test[array[k]] THEN k
    ELSE findIndex(array, test, k + 1)

\* sliceFrom leaving out the matching item.
sliceFromAfterMatch(array, test) ==
    LET sliceIndex == findIndex(array, test, 1) IN
    IF sliceIndex = 0
    THEN failure(<<Msg("Unable to find item in array that matches provided starting position test.", -1, <<>>)>>)
    ELSE success(SubSeq(array, sliceIndex + 1, Len(array)))

\* sliceTo that never includes the matching item.
sliceToExclusive(array, test, inclusive) ==
    LET sliceIndex == findIndex(array, test, 1) IN
    IF sliceIndex = 0
    THEN failure(<<Msg("Unable to find item in array that matches provided end position test.", -1, <<>>)>>)
    ELSE success(SubSeq(array, 1, sliceIndex - 1))

sliceFrom(array, test) ==
    LET sliceIndex == findIndex(array, test, 1) IN
    IF sliceIndex = 0
    THEN failure(<<Msg("Unable to find item in array that matches provided starting position test.", -1, <<>>)>>)
    ELSE success(SubSeq(array, sliceIndex, Len(array)))

sliceTo(array, test, inclusive) ==
    LET sliceIndex == findIndex(array, test, 1) IN
    IF sliceIndex = 0
    THEN failure(<<Msg("Unable to find item in array that matches provided end position test.", -1, <<>>)>>)
    ELSE success(SubSeq(array, 1, (sliceIndex - 1) + (IF inclusive THEN 1 ELSE 0)))

\* ------------------------------------------------ TransformChain (transform.ts)

RECURSIVE extendFrom(_, _, _)
\* The forEach of extendTransformChain from argument k on (k counts from 1,
\* the index in the message from 0).
extendFrom(chain, transforms, k) ==
    IF k > Len(transforms) THEN success(chain)
    ELSE LET transform == transforms[k]
             end == IF Len(chain) > 0 THEN chain[Len(chain)].end ELSE transform.start
         IN  IF ~isEqual(end, transform.start)
             THEN failure(<<Msg("Transform provided at index does not connect to the transform chain",
                                k - 1, <<transform.end, end>>)>>)
             ELSE extendFrom(Append(chain, transform), transforms, k + 1)

\* extendTransformChain pushing every transform without the connection check.
extendTransformChainUnchecked(baseChain, transforms) == success(baseChain \o transforms)

extendTransformChain(baseChain, transforms) == extendFrom(baseChain, transforms, 1)

\* const chain = [...baseChain]: the array the pushes go to is another array
\* with the same transforms.
spreadAlias(obj) == obj

spreadCopy(obj) == [ref |-> "copy", val |-> obj.val]

RECURSIVE pushedFrom(_, _, _)
\* The array the forEach pushes to, as the forEach leaves it.
pushedFrom(chain, transforms, k) ==
    IF k > Len(transforms) THEN chain
    ELSE LET transform == transforms[k]
             end == IF Len(chain) > 0 THEN chain[Len(chain)].end ELSE transform.start
         IN  IF ~isEqual(end, transform.start) THEN chain
             ELSE pushedFrom(Append(chain, transform), transforms, k + 1)

\* The array baseChain after extendTransformChain(baseChain)(...transforms):
\* it has the pushes only if it is the array pushed to.
baseAfterExtend(baseChain, transforms) ==
    LET chain == spreadCopy([ref |-> "base", val |-> baseChain]) IN
    IF chain.ref = "base" THEN pushedFrom(chain.val, transforms, 1) ELSE baseChain

createTransformChain(transforms) == extendTransformChain(<<>>, transforms)

\* chain[0].start and chain.slice(-1)[0].end: reading a property of undefined
\* throws.
getStart(chain) ==
    IF Len(chain) = 0 THEN [threw |-> TRUE, value |-> NoType]
    ELSE [threw |-> FALSE, value |-> chain[1].start]
getEnd(chain) ==
    IF Len(chain) = 0 THEN [threw |-> TRUE, value |-> NoType]
    ELSE [threw |-> FALSE, value |-> chain[Len(chain)].end]

chainAdd(chain, transform) == extendTransformChain(chain, <<transform>>)

\* from(version) giving the whole chain whenever some transform starts at
\* version.
chainFromWhole(chain, version) ==
    LET slicedChainResult == sliceFrom(chain, [tr \in Transforms |-> isEqual(tr.start, version)]) IN
    IF ~slicedChainResult.success
    THEN failure(<<Msg("Migration chain does not have a transform to start from for analyses of this type", -1, <<>>),
                   Msg("version", -1, <<version>>)>> \o slicedChainResult.errors)
    ELSE extendTransformChain(chain, <<>>)

chainFrom(chain, version) ==
    LET slicedChainResult == sliceFrom(chain, [tr \in Transforms |-> isEqual(tr.start, version)]) IN
    IF ~slicedChainResult.success
    THEN failure(<<Msg("Migration chain does not have a transform to start from for analyses of this type", -1, <<>>),
                   Msg("version", -1, <<version>>)>> \o slicedChainResult.errors)
    ELSE extendTransformChain(slicedChainResult.data, <<>>)

chainTo(chain, version) ==
    LET slicedChainResult == sliceTo(chain, [tr \in Transforms |-> isEqual(tr.end, version)], TRUE) IN
    IF ~slicedChainResult.success
    THEN failure(<<Msg("Migration chain does not have a transform to end on for analyses of this type", -1, <<>>),
                   Msg("version", -1, <<version>>)>> \o slicedChainResult.errors)
    ELSE extendTransformChain(slicedChainResult.data, <<>>)

\* An object as a transformer sees it: which object it is (ref) and its value.
\* _.cloneDeep gives another object with the same value.
cloneDeep(obj) == [ref |-> "copy", val |-> obj.val]

\* The caller's argument after a transformer ran on the object data: it has
\* changed only if that object is the argument itself (or part of it) and the
\* transformer rewrote it in place.
argAfter(acc, after) ==
    IF acc.ref = "arg" /\ after # acc.res.data
    THEN [acc.arg EXCEPT !.trace = after.trace]
    ELSE acc.arg

\* withResult(transform.apply)(acc) handing on a Failure without its errors.
withResultApplyLosingErrors(t, acc) ==
    IF ~acc.res.success
    THEN [res |-> failure(<<Msg("failed", -1, <<>>)>>), called |-> acc.called,
          ref |-> acc.ref, arg |-> acc.arg]
    ELSE LET r == transformApply(t, acc.res.data) IN
         IF r.threw
         THEN [res |-> failure(<<Msg("thrown error", -1, <<>>)>>),
               called |-> acc.called \o r.called,
               ref |-> "fresh", arg |-> argAfter(acc, r.input)]
         ELSE [res |-> r.res, called |-> acc.called \o r.called,
               ref |-> "fresh", arg |-> argAfter(acc, r.input)]

\* withResult(transform.apply)(acc) for an acc that is a Result already: a
\* Failure goes through with its errors, a thrown error becomes a Failure.
\* called collects the transformers invoked so far, ref is the object the
\* data of acc is, arg the caller's argument as it is by now. The data of a
\* Success of transform.apply is a new object (a spread).
withResultApply(t, acc) ==
    IF ~acc.res.success
    THEN [res |-> failure(acc.res.errors), called |-> acc.called,
          ref |-> acc.ref, arg |-> acc.arg]
    ELSE LET r == transformApply(t, acc.res.data) IN
         IF r.threw
         THEN [res |-> failure(<<Msg("thrown error", -1, <<>>)>>),
               called |-> acc.called \o r.called,
               ref |-> "fresh", arg |-> argAfter(acc, r.input)]
         ELSE [res |-> r.res, called |-> acc.called \o r.called,
               ref |-> "fresh", arg |-> argAfter(acc, r.input)]

RECURSIVE reduceApply(_, _, _)
reduceApply(chain, k, acc) ==
    IF k > Len(chain) THEN acc
    ELSE reduceApply(chain, k + 1, withResultApply(chain[k], acc))

\* chain.apply(analysis): the fold starts from asResult of a deep copy of the
\* argument. input is the argument object after the call.
chainApply(chain, analysis) ==
    LET copy == cloneDeep([ref |-> "arg", val |-> analysis])
        r == reduceApply(chain, 1, [res |-> asResult(copy.val), called |-> <<>>,
                                    ref |-> copy.ref, arg |-> analysis])
    IN  [threw |-> FALSE, res |-> r.res, input |-> r.arg, called |-> r.called]

\* ------------------------------------------------------- Transform chain: steps

\* No call yet. parent is the chain the call is made on, after that chain's
\* array when the call has returned, before the call that gave the chain when
\* that was a from.
NoBefore == [name |-> "none", version |-> NoType, parent |-> <<>>, ok |-> FALSE]
NoOp == [name |-> "none", args |-> <<>>, version |-> NoType, parent |-> <<>>,
         after |-> <<>>, before |-> NoBefore]
NoCall == [op |-> "none", transforms |-> <<>>, given |-> NoRecord,
           out |-> [threw |-> FALSE, res |-> failure(<<>>), input |-> NoRecord, called |-> <<>>]]

ArgLists == UNION {[1..n -> Transforms] : n \in 0..MaxChain}

InitTC ==
    /\ tcPhase = "idle"
    /\ tcChain = <<>>
    /\ tcOp = NoOp
    /\ tcRes = failure(<<>>)
    /\ tcCall = NoCall

\* createTransformChain(...transforms)
Create ==
    /\ tcPhase = "idle"
    /\ tcCall = NoCall
    /\ \E transforms \in ArgLists :
        LET r == createTransformChain(transforms) IN
        /\ tcRes' = r
        /\ tcPhase' = IF r.success THEN "built" ELSE "failed"
        /\ tcChain' = IF r.success THEN r.data ELSE <<>>
        /\ tcOp' = [NoOp EXCEPT !.name = "create", !.args = transforms]
    /\ UNCHANGED <<tcCall, notTcVars>>

\* A call on the chain in hand that returns a Result of a chain; on Success
\* the caller goes on with the chain returned.
ChainStep(name, args, version, r, after) ==
    /\ tcOp' = [name |-> name, args |-> args, version |-> version, parent |-> tcChain,
               after |-> after,
               before |-> IF tcOp.name = "from" /\ tcRes.success
                          THEN [name |-> tcOp.name, version |-> tcOp.version,
                                parent |-> tcOp.parent, ok |-> tcRes.success]
                          ELSE NoBefore]
    /\ tcRes' = r
    /\ tcChain' = IF r.success THEN r.data ELSE tcChain
    /\ UNCHANGED <<tcPhase, tcCall, notTcVars>>

\* chain.add(transform)
ChainAdd ==
    /\ tcPhase = "built"
    /\ tcCall = NoCall
    /\ Len(tcChain) < MaxChain
    /\ \E transform \in Transforms :
        ChainStep("add", <<transform>>, NoType, chainAdd(tcChain, transform),
                  baseAfterExtend(tcChain, <<transform>>))

\* chain.from(version)
ChainFrom ==
    /\ tcPhase = "built"
    /\ tcCall = NoCall
    /\ \E version \in Types :
        ChainStep("from", <<>>, version, chainFrom(tcChain, version), tcChain)

\* chain.to(version)
ChainTo ==
    /\ tcPhase = "built"
    /\ tcCall = NoCall
    /\ \E version \in Types :
        ChainStep("to", <<>>, version, chainTo(tcChain, version), tcChain)

\* chain.apply(analysis) on a chain as createTransformChain returned it
ChainApply ==
    /\ tcPhase = "built"
    /\ tcCall = NoCall
    /\ tcOp.name = "create"
    /\ \E analysis \in Inputs :
        tcCall' = [op |-> "chain", transforms |-> tcChain, given |-> analysis,
                   out |-> chainApply(tcChain, analysis)]
    /\ UNCHANGED <<tcPhase, tcChain, tcOp, tcRes, notTcVars>>

\* transform.apply(analysis) on one transform
TransformApply ==
    /\ tcPhase = "idle"
    /\ tcCall = NoCall
    /\ \E t \in Transforms, analysis \in Inputs :
        tcCall' = [op |-> "transform", transforms |-> <<t>>, given |-> analysis,
                   out |-> transformApply(t, analysis)]
    /\ UNCHANGED <<tcPhase, tcChain, tcOp, tcRes, notTcVars>>

\* ------------------------------------ withResult, withResultAsync (types/result.ts)

\* Error strings a Failure is built of, and how many of them at most.
MaxErrors == 2
ErrorTexts == {Msg("e1", -1, <<>>), Msg("e2", -1, <<>>)}
ErrorLists == UNION {[1..n -> ErrorTexts] : n \in 0..MaxErrors}

\* A function handed to withResult, withResultAsync or a pipe, by what it does
\* with its argument:
\*   value    returns a rewritten copy of it
\*   success  returns a Success of a rewritten copy
\*   failure  returns a Failure
\*   throw    throws
\*   reject   returns a promise that rejects
Fn(name, kind) == [op |-> "fn", name |-> name, kind |-> kind]
SyncKinds == {"value", "success", "failure", "throw"}
AsyncKinds == SyncKinds \cup {"reject"}
\* The promise of a "reject" function, as a value.
RejectedPromise == Rec(NoType, <<"a promise that rejects">>, "none", NoType)

\* The outcome of a call: whether it threw (for an async function: whether its
\* promise rejected), what it returned or threw, and the functions it called.
Outcome(threw, value, called) == [threw |-> threw, value |-> value, called |-> called]

\* fn(arg) for a function handed in; awaited says whether the caller awaits
\* the value returned.
callFn(fn, arg, awaited) ==
    LET rewritten == [arg EXCEPT !.trace = Append(@, fn.name)] IN
    CASE fn.kind = "value" -> Outcome(FALSE, rewritten, <<fn.name>>)
      [] fn.kind = "success" -> Outcome(FALSE, success(rewritten), <<fn.name>>)
      [] fn.kind = "failure" ->
            Outcome(FALSE, failure(<<Msg("failed", -1, <<fn.name>>)>>), <<fn.name>>)
      [] fn.kind = "throw" -> Outcome(TRUE, Msg("thrown error", -1, <<fn.name>>), <<fn.name>>)
      [] OTHER ->
            IF awaited
            THEN Outcome(TRUE, Msg("rejection", -1, <<fn.name>>), <<fn.name>>)
            ELSE Outcome(FALSE, RejectedPromise, <<fn.name>>)

RECURSIVE call(_, _, _)
RECURSIVE withResult(_, _)
RECURSIVE withResultAsync(_, _)

\* safeF of a builder made by pipe or by asyncPipe.
safe(fn, async, arg) == IF async THEN withResultAsync(fn, arg) ELSE withResult(fn, arg)

\* The function into and await hand to the next builder:
\* (arg) => safeG(safeF(arg)), with the awaits of the async variants.
callInto(fn, arg) ==
    LET f == safe(fn.f, fn.async, arg) IN
    IF f.threw THEN f
    ELSE LET g == safe(fn.g, fn.op = "await", f.value) IN
         Outcome(g.threw, g.value, f.called \o g.called)

\* The function of check with its test the wrong way round.
callCheckNegated(fn, arg) ==
    LET f == safe(fn.f, fn.async, arg) IN
    IF f.threw \/ ~f.value.success THEN f
    ELSE CASE fn.p = "throw" ->
                Outcome(TRUE, Msg("thrown error", -1, <<"p">>), Append(f.called, "p"))
           [] fn.p = "true" ->
                Outcome(FALSE, failure(<<fn.error>>), Append(f.called, "p"))
           [] OTHER -> Outcome(FALSE, f.value, Append(f.called, "p"))

\* The function check hands to the next builder: the Failure of fResult, a
\* Failure of the error given when the test fails on the data of a Success,
\* fResult otherwise.
callCheck(fn, arg) ==
    LET f == safe(fn.f, fn.async, arg) IN
    IF f.threw \/ ~f.value.success THEN f
    ELSE CASE fn.p = "throw" ->
                Outcome(TRUE, Msg("thrown error", -1, <<"p">>), Append(f.called, "p"))
           [] fn.p = "false" ->
                Outcome(FALSE, failure(<<fn.error>>), Append(f.called, "p"))
           [] OTHER -> Outcome(FALSE, f.value, Append(f.called, "p"))

call(fn, arg, awaited) ==
    CASE fn.op = "fn" -> callFn(fn, arg, awaited)
      [] fn.op = "check" -> callCheck(fn, arg)
      [] OTHER -> callInto(fn, arg)

\* withResult(fn) calling fn on whatever it is given.
withResultNoShortCut(fn, input) ==
    LET result == asResult(input)
        r == call(fn, IF result.success THEN result.data ELSE NoRecord, FALSE)
    IN  IF r.threw THEN Outcome(FALSE, failure(<<r.value>>), r.called)
        ELSE Outcome(FALSE, asResult(r.value), r.called)

\* withResult(fn)(input). The spread of result.errors is outside the try: it
\* throws when the value taken for a Result has no errors to iterate.
withResult(fn, input) ==
    LET result == asResult(input) IN
    IF ~result.success
    THEN IF "errors" \notin DOMAIN result
         THEN Outcome(TRUE, Msg("TypeError: result.errors is not iterable", -1, <<>>), <<>>)
         ELSE Outcome(FALSE, failure(result.errors), <<>>)
    ELSE LET r == call(fn, result.data, FALSE) IN
         IF r.threw THEN Outcome(FALSE, failure(<<r.value>>), r.called)
         ELSE Outcome(FALSE, asResult(r.value), r.called)

\* withResultAsync(fn) calling fn on whatever it is given.
withResultAsyncNoShortCut(fn, input) ==
    LET inputResult == asResult(input)
        r == call(fn, IF inputResult.success THEN inputResult.data ELSE NoRecord, TRUE)
    IN  IF r.threw THEN Outcome(FALSE, failure(<<r.value>>), r.called)
        ELSE Outcome(FALSE, asResult(r.value), r.called)

\* withResultAsync(fn)(input): the same around an awaited call; a throw in the
\* async function rejects its promise.
withResultAsync(fn, input) ==
    LET inputResult == asResult(input) IN
    IF ~inputResult.success
    THEN IF "errors" \notin DOMAIN inputResult
         THEN Outcome(TRUE, Msg("TypeError: inputResult.errors is not iterable", -1, <<>>), <<>>)
         ELSE Outcome(FALSE, failure(inputResult.errors), <<>>)
    ELSE LET r == call(fn, inputResult.data, TRUE) IN
         IF r.threw THEN Outcome(FALSE, failure(<<r.value>>), r.called)
         ELSE Outcome(FALSE, asResult(r.value), r.called)

\* ------------------------------------------------------- pipe, asyncPipe (pipe.ts)

\* A builder: the function it wraps and which of the two wrappers wraps it.
pipe(f) == [fn |-> f, async |-> FALSE]
asyncPipe(f) == [fn |-> f, async |-> TRUE]

into(builder, g) ==
    [fn |-> [op |-> "into", f |-> builder.fn, async |-> builder.async, g |-> g],
     async |-> builder.async]

\* await handing on the builder it was called on, without g.
awaitWithoutStep(builder, g) == [fn |-> builder.fn, async |-> TRUE]

await(builder, g) ==
    [fn |-> [op |-> "await", f |-> builder.fn, async |-> builder.async, g |-> g],
     async |-> TRUE]

check(builder, g, error) ==
    [fn |-> [op |-> "check", f |-> builder.fn, async |-> builder.async, p |-> g,
             error |-> error],
     async |-> builder.async]

run(builder, arg) == safe(builder.fn, builder.async, arg)

\* build()(arg): build returns safeF itself.
build(builder, arg) == safe(builder.fn, builder.async, arg)

\* ------------------------------------------------- Result and pipe: steps

\* What a caller may hand in: an analysis (which may look like a Result), a
\* Success of one, or a Failure.
BareValues ==
    {Plain(T1), Rec(T1, <<>>, "success", T2), Rec(T1, <<>>, "failure", T1),
     Rec(T1, <<>>, "failure, no errors", T1)}
Successes == {success(Plain(T1)), success(Rec(T1, <<>>, "success", T2))}
Failures == {failure(parts) : parts \in ErrorLists}
Values == BareValues \cup Successes \cup Failures

Tests == {"true", "false", "throw"}
TheError == Msg("msg", -1, <<>>)

NoResCall ==
    [op |-> "none", f |-> "none", g |-> "none", p |-> "none", input |-> NoRecord,
     out |-> Outcome(FALSE, failure(<<>>), <<>>)]

InitRes == resCall = NoResCall

\* failure(...parts)
Failure ==
    /\ \E parts \in ErrorLists :
        resCall' = [NoResCall EXCEPT !.op = "failure",
                                     !.out = Outcome(FALSE, failure(parts), <<>>)]
    /\ UNCHANGED notResVars

\* withResult(f)(input)
WithResult ==
    /\ \E kind \in SyncKinds, input \in Values :
        resCall' = [NoResCall EXCEPT !.op = "withResult", !.f = kind, !.input = input,
                                     !.out = withResult(Fn("f", kind), input)]
    /\ UNCHANGED notResVars

\* await withResultAsync(f)(input)
WithResultAsync ==
    /\ \E kind \in AsyncKinds, input \in Values :
        resCall' = [NoResCall EXCEPT !.op = "withResultAsync", !.f = kind, !.input = input,
                                     !.out = withResultAsync(Fn("f", kind), input)]
    /\ UNCHANGED notResVars

\* pipe(f).into(g).check(p, "msg").run(input)
PipeRun ==
    /\ \E f \in SyncKinds, g \in SyncKinds, p \in Tests, input \in Values :
        resCall' = [op |-> "pipe", f |-> f, g |-> g, p |-> p, input |-> input,
                    out |-> run(check(into(pipe(Fn("f", f)), Fn("g", g)), p, TheError), input)]
    /\ UNCHANGED notResVars

\* await asyncPipe(f).into(g).check(p, "msg").run(input)
AsyncPipeRun ==
    /\ \E f \in AsyncKinds, g \in SyncKinds, p \in Tests, input \in Values :
        resCall' = [op |-> "asyncPipe", f |-> f, g |-> g, p |-> p, input |-> input,
                    out |-> run(check(into(asyncPipe(Fn("f", f)), Fn("g", g)), p, TheError), input)]
    /\ UNCHANGED notResVars

\* await pipe(f).await(g).check(p, "msg").run(input)
PipeAwaitRun ==
    /\ \E f \in SyncKinds, g \in AsyncKinds, p \in Tests, input \in Values :
        resCall' = [op |-> "pipeAwait", f |-> f, g |-> g, p |-> p, input |-> input,
                    out |-> run(check(await(pipe(Fn("f", f)), Fn("g", g)), p, TheError), input)]
    /\ UNCHANGED notResVars

NextRes ==
    \/ Failure
    \/ WithResult
    \/ WithResultAsync
    \/ PipeRun
    \/ AsyncPipeRun
    \/ PipeAwaitRun

\* ------------------------------------------------------- Queue on its own: steps

\* Calls of add over one run, and the items added: 0..MaxValue.
MaxAdds == 3
MaxValue == 2
QValues == 0..MaxValue

\* takeActions.forEach((action) => action({ length: queue.length, item })) for
\* listeners that only note the event: one call per listener, in the order of
\* registration.
triggerActions(n, length, item) ==
    [k \in 1..n |-> [listener |-> k, length |-> length, item |-> item]]

\* What an add listener does with the event: it only notes it, or it calls
\* take() on the queue as well (as attemptStart of PromiseQueue does).
ListenerKinds == {"note", "take"}

RECURSIVE triggerAddActions(_, _, _, _)
\* addActions.forEach((action) => action({ length: queue.length, item })) from
\* listener k on: queue.length is read when the listener is called. array is
\* the queue's array when the forEach is over.
triggerAddActions(actions, k, array, item) ==
    IF k > Len(actions) THEN [array |-> array, fired |-> <<>>]
    ELSE LET event == [listener |-> k, length |-> Len(array), item |-> item]
             left == IF actions[k] = "take" THEN take(array).rest ELSE array
             rest == triggerAddActions(actions, k + 1, left, item)
         IN  [array |-> rest.array, fired |-> <<event>> \o rest.fired]

\* No call yet. item is the item handed to add, before and after are the array
\* around the call, pushed the array when add has pushed the item, res is what
\* take returned (add returns nothing), listeners how many listeners there
\* were for the call, fired the listener calls made.
NoQOut ==
    [op |-> "none", item |-> 0, before |-> <<>>, pushed |-> <<>>, after |-> <<>>,
     res |-> failure(<<>>), listeners |-> 0, fired |-> <<>>]

InitQu ==
    /\ qArray = <<>>
    /\ qAddActions = <<>>
    /\ qTakeActions = 0
    /\ qAdded = 0
    /\ qOut = NoQOut

\* add(item)
QueueAdd ==
    /\ qAdded < MaxAdds
    /\ \E item \in QValues :
        LET pushed == queueAdd(qArray, item)
            t == triggerAddActions(qAddActions, 1, pushed, item)
        IN  /\ qArray' = t.array
            /\ qOut' = [NoQOut EXCEPT !.op = "add", !.item = item, !.before = qArray,
                                      !.pushed = pushed, !.after = t.array,
                                      !.listeners = Len(qAddActions),
                                      !.fired = t.fired]
    /\ qAdded' = qAdded + 1
    /\ UNCHANGED <<qAddActions, qTakeActions, notQuVars>>

\* take()
QueueTake ==
    /\ LET t == take(qArray) IN
        /\ qArray' = t.rest
        /\ qOut' = [op |-> "take", item |-> 0, before |-> qArray, pushed |-> <<>>,
                    after |-> t.rest,
                    res |-> IF t.success THEN success(t.data)
                            ELSE failure(<<Msg("Empty Queue", -1, <<>>)>>),
                    listeners |-> qTakeActions,
                    fired |-> IF t.success
                              THEN triggerActions(qTakeActions, Len(t.rest), t.data)
                              ELSE <<>>]
    /\ UNCHANGED <<qAddActions, qTakeActions, qAdded, notQuVars>>

\* onAdd(action)
QueueOnAdd ==
    /\ Len(qAddActions) < MaxListeners
    /\ \E kind \in ListenerKinds : qAddActions' = Append(qAddActions, kind)
    /\ UNCHANGED <<qArray, qTakeActions, qAdded, qOut, notQuVars>>

\* onTake(action)
QueueOnTake ==
    /\ qTakeActions < MaxListeners
    /\ qTakeActions' = qTakeActions + 1
    /\ UNCHANGED <<qArray, qAddActions, qAdded, qOut, notQuVars>>

NextQu ==
    \/ QueueAdd
    \/ QueueTake
    \/ QueueOnAdd
    \/ QueueOnTake

\* ------------------------------------------------ PromiseQueue (promiseQueue.ts)

\* One QueueEvent as a listener receives it.
Event(type, item, listener, running, queued) ==
    [type |-> type, item |-> item, listener |-> listener, running |-> running, queued |-> queued]

\* attemptStart with <= in place of < in its guard.
attemptStartOffByOne(a, q) ==
    IF a <= maxConcurrency
    THEN LET next == take(q) IN
         IF next.success
         THEN [active |-> a + 1, queue |-> next.rest, started |-> <<next.data>>,
               thrown |-> FALSE]
         ELSE [active |-> a, queue |-> next.rest, started |-> <<>>, thrown |-> FALSE]
    ELSE [active |-> a, queue |-> q, started |-> <<>>, thrown |-> FALSE]

\* attemptStart leaving every item where it is.
attemptStartNever(a, q) == [active |-> a, queue |-> q, started |-> <<>>, thrown |-> FALSE]

\* The synchronous part of attemptStart, up to its await: with a free slot and
\* a pending item, take it, count it as active and start it. started holds the
\* item whose work function was invoked, if any.
attemptStart(a, q) ==
    IF a < maxConcurrency
    THEN LET next == take(q) IN
         IF next.success
         THEN [active |-> a + 1, queue |-> next.rest, started |-> <<next.data>>,
               thrown |-> FALSE]
         ELSE [active |-> a, queue |-> next.rest, started |-> <<>>, thrown |-> FALSE]
    ELSE [active |-> a, queue |-> q, started |-> <<>>, thrown |-> FALSE]

\* The try block without its closing attemptStart().
onResolvedNoDrain(a, q) ==
    [active |-> a - 1, queue |-> q, started |-> <<>>, thrown |-> FALSE]

\* The try block with the admission attempt made before the decrement.
onResolvedAdmitsFirst(a, q) ==
    LET r == attemptStart(a, q) IN [r EXCEPT !.active = @ - 1]

\* After the awaited work resolved: one slot less in use, then the next
\* admission attempt.
onResolved(a, q) == attemptStart(a - 1, q)

\* The catch block swallowing the error and making no admission attempt.
onRejectedNoDrain(a, q, listeners) ==
    [active |-> a - 1, queue |-> q, started |-> <<>>, thrown |-> FALSE]

\* The catch block rethrowing whatever the listeners.
onRejectedAlwaysThrows(a, q, listeners) ==
    [active |-> a - 1, queue |-> q, started |-> <<>>, thrown |-> TRUE]

\* The catch block swallowing the error whatever the listeners.
onRejectedNeverThrows(a, q, listeners) == attemptStart(a - 1, q)

\* The catch block: one slot less in use; with error listeners the queue goes
\* on, without any the error leaves attemptStart.
onRejected(a, q, listeners) ==
    IF listeners > 0
    THEN attemptStart(a - 1, q)
    ELSE [active |-> a - 1, queue |-> q, started |-> <<>>, thrown |-> TRUE]

\* Events of the start listeners for the items a call started.
StartEvents(r) ==
    [k \in 1..Len(r.started) |-> Event("start", r.started[k], 0, r.active, Len(r.queue))]

\* Events of the error listeners, one per registered listener, in registration
\* order, fired after the decrement and before the next admission attempt.
ErrorEvents(i, a, q, listeners) ==
    [k \in 1..listeners |-> Event("error", i, k, a - 1, Len(q))]

StatusAfter(st, r) ==
    [j \in Items |-> IF Len(r.started) > 0 /\ j = r.started[1] THEN "running" ELSE st[j]]

InitPQ ==
    /\ maxConcurrency \in 1..MaxConc
    /\ activeProcesses = 0
    /\ queue = <<>>
    /\ errorActions = 0
    /\ status = [i \in Items |-> "unadded"]
    /\ events = <<>>
    /\ thrown = {}

\* add(fn): queue.add pushes the wrapped function and fires the add listener
\* registered by the constructor, which is attemptStart.
Add(i) ==
    /\ status[i] = "unadded"
    /\ \A j \in Items : j < i => status[j] # "unadded"
    /\ LET r == attemptStart(activeProcesses, queueAdd(queue, i)) IN
        /\ activeProcesses' = r.active
        /\ queue' = r.queue
        /\ status' = StatusAfter([status EXCEPT ![i] = "pending"], r)
        /\ events' = events \o StartEvents(r)
    /\ UNCHANGED <<maxConcurrency, errorActions, thrown, notPqVars>>

\* onError(action)
OnError ==
    /\ errorActions < MaxListeners
    /\ errorActions' = errorActions + 1
    /\ UNCHANGED <<maxConcurrency, activeProcesses, queue, status, events, thrown, notPqVars>>

\* The work of running item i resolves: the rest of the try block.
Resolve(i) ==
    /\ status[i] = "running"
    /\ LET r == onResolved(activeProcesses, queue) IN
        /\ activeProcesses' = r.active
        /\ queue' = r.queue
        /\ status' = StatusAfter([status EXCEPT ![i] = "resolved"], r)
        /\ events' = events
                     \o <<Event("finish", i, 0, activeProcesses - 1, Len(queue))>>
                     \o StartEvents(r)
    /\ UNCHANGED <<maxConcurrency, errorActions, thrown, notPqVars>>

\* The work of running item i rejects: the catch block.
Reject(i) ==
    /\ status[i] = "running"
    /\ LET r == onRejected(activeProcesses, queue, errorActions) IN
        /\ activeProcesses' = r.active
        /\ queue' = r.queue
        /\ status' = StatusAfter([status EXCEPT ![i] = "rejected"], r)
        /\ events' = events
                     \o ErrorEvents(i, activeProcesses, queue, errorActions)
                     \o StartEvents(r)
        /\ thrown' = IF r.thrown THEN thrown \cup {i} ELSE thrown
    /\ UNCHANGED <<maxConcurrency, errorActions, notPqVars>>

NextPQ ==
    \/ \E i \in Items : Add(i)
    \/ OnError
    \/ \E i \in Items : Resolve(i)
    \/ \E i \in Items : Reject(i)

\* ---------------------------------- PromiseQueue with listeners that throw

\* attemptStart when a start listener throws: the item is taken and counted,
\* and the exception leaves attemptStart before the work function is invoked.
attemptStartListenerThrows(a, q) ==
    IF a < maxConcurrency
    THEN LET next == take(q) IN
         IF next.success
         THEN [active |-> a + 1, queue |-> next.rest, started |-> <<>>, thrown |-> TRUE,
               abandoned |-> <<next.data>>]
         ELSE [active |-> a, queue |-> next.rest, started |-> <<>>, thrown |-> FALSE,
               abandoned |-> <<>>]
    ELSE [active |-> a, queue |-> q, started |-> <<>>, thrown |-> FALSE, abandoned |-> <<>>]

\* The try block when a finish listener throws: the exception is thrown after
\* the decrement and inside the try, so the catch block runs after it.
onResolvedListenerThrows(a, q, listeners) == onRejected(a - 1, q, listeners)

\* The catch block when the first error listener throws: the exception leaves
\* attemptStart after the decrement.
onRejectedListenerThrows(a, q) ==
    [active |-> a - 1, queue |-> q, started |-> <<>>, thrown |-> TRUE]

\* add(fn) with a start listener that throws.
AddStartThrows(i) ==
    /\ status[i] = "unadded"
    /\ \A j \in Items : j < i => status[j] # "unadded"
    /\ LET r == attemptStartListenerThrows(activeProcesses, queueAdd(queue, i)) IN
        /\ activeProcesses' = r.active
        /\ queue' = r.queue
        /\ status' = [j \in Items |->
                        IF j \in Range(r.abandoned) THEN "abandoned"
                        ELSE IF j = i THEN "pending" ELSE status[j]]
        /\ events' = events
                     \o [k \in 1..Len(r.abandoned) |->
                            Event("start", r.abandoned[k], 0, r.active, Len(r.queue))]
        /\ thrown' = thrown \cup Range(r.abandoned)
    /\ UNCHANGED <<maxConcurrency, errorActions, notPqVars>>

\* The work of running item i resolves and a finish listener throws.
ResolveFinishThrows(i) ==
    /\ status[i] = "running"
    /\ LET r == onResolvedListenerThrows(activeProcesses, queue, errorActions) IN
        /\ activeProcesses' = r.active
        /\ queue' = r.queue
        /\ status' = StatusAfter([status EXCEPT ![i] = "resolved"], r)
        /\ events' = events
                     \o <<Event("finish", i, 0, activeProcesses - 1, Len(queue))>>
                     \o ErrorEvents(i, activeProcesses - 1, queue, errorActions)
                     \o StartEvents(r)
        /\ thrown' = IF r.thrown THEN thrown \cup {i} ELSE thrown
    /\ UNCHANGED <<maxConcurrency, errorActions, notPqVars>>

\* The work of running item i rejects and the first error listener throws.
RejectErrorThrows(i) ==
    /\ status[i] = "running"
    /\ errorActions > 0
    /\ LET r == onRejectedListenerThrows(activeProcesses, queue) IN
        /\ activeProcesses' = r.active
        /\ queue' = r.queue
        /\ status' = [status EXCEPT ![i] = "rejected"]
        /\ events' = events \o <<Event("error", i, 1, activeProcesses - 1, Len(queue))>>
        /\ thrown' = thrown \cup {i}
    /\ UNCHANGED <<maxConcurrency, errorActions, notPqVars>>

NextPQThrowing ==
    \/ \E i \in Items : Add(i)
    \/ OnError
    \/ \E i \in Items : Resolve(i)
    \/ \E i \in Items : Reject(i)
    \/ \E i \in Items : AddStartThrows(i)
    \/ \E i \in Items : ResolveFinishThrows(i)
    \/ \E i \in Items : RejectErrorThrows(i)

\* ------------------ Network calls (external/song/index.ts, ego client, fetchUtils.ts)

\* The calls that reach the record store or the authentication service.
Calls == {"listStudies", "getAnalysesPage", "updateAnalysis", "fetchClientToken",
          "fetchPublicKey"}

\* No request out.
NoFetch == [to |-> "none", signal |-> FALSE]
\* fetch(url, init): a request that is out; signal says whether init carries the
\* signal of an AbortController.
Fetch(to, signal) == [to |-> to, signal |-> signal]

\* withTimeout(timeout, fn)(url, init): the timer is set, init gets the
\* controller's signal, and fn is called with it.
withTimeout(fetch) == [timer |-> "armed", fetch |-> [fetch EXCEPT !.signal = TRUE]]

\* A call made without withTimeout.
withoutTimeout(fetch) == [timer |-> "none", fetch |-> fetch]

\* getClientToken up to its first request: the public key if none is stored,
\* a new token if the stored one is missing or no longer valid, none otherwise.
getClientToken(cache) ==
    IF ~cache.publicKey THEN Fetch("public key", FALSE)
    ELSE IF ~cache.token THEN Fetch("token", FALSE)
    ELSE NoFetch

\* safeFetch(args[0], requestInit) in fetchWithAuth: requestInit is the init
\* that withTimeout gave its signal to.
fetchWithAuthRequest(init) == Fetch("record store", init.signal)

\* The first request of a call and the timer set for it.
firstRequest(name, cache) ==
    CASE name = "listStudies" -> withoutTimeout(Fetch("record store", FALSE))
      [] name = "getAnalysesPage" -> withTimeout(Fetch("record store", FALSE))
      [] name = "fetchClientToken" -> withoutTimeout(Fetch("token", FALSE))
      [] name = "fetchPublicKey" -> withoutTimeout(Fetch("public key", FALSE))
      [] OTHER ->
            LET w == withTimeout(Fetch("record store", FALSE))
                first == getClientToken(cache)
            IN  [timer |-> w.timer,
                 fetch |-> IF first = NoFetch THEN fetchWithAuthRequest(w.fetch) ELSE first]

InitNet ==
    /\ netCall = "none"
    /\ netFetch = NoFetch
    /\ netTimer = "none"
    /\ netResult = "none"
    /\ netCache \in {cache \in [publicKey : BOOLEAN, token : BOOLEAN] :
                        cache.token => cache.publicKey}
    /\ netCalls = 0

\* One of the calls is made, once the call before has settled.
NetCall ==
    /\ netCall = "none" \/ netResult # "none"
    /\ netCalls < MaxCalls
    /\ \E name \in Calls :
        LET first == firstRequest(name, netCache) IN
        /\ netCall' = name
        /\ netFetch' = first.fetch
        /\ netTimer' = first.timer
    /\ netResult' = "none"
    /\ netCalls' = netCalls + 1
    /\ UNCHANGED <<netCache, notNetVars>>

\* The remote side answers the request that is out. For updateAnalysis an
\* answer to the request of the public key or of the token leads to the next
\* request: the token, or the update itself with the init of withTimeout, which
\* fails at once if the controller has aborted (a call of updateAnalysis
\* always has the timer and the signal of its withTimeout).
Answer ==
    /\ netFetch # NoFetch
    /\ \E ok \in BOOLEAN :
        LET cache == IF ~ok THEN netCache
                     ELSE CASE netFetch.to = "public key" /\ netCall = "updateAnalysis" ->
                                    [netCache EXCEPT !.publicKey = TRUE]
                            [] netFetch.to = "token" /\ netCall = "updateAnalysis" ->
                                    [netCache EXCEPT !.token = TRUE]
                            [] OTHER -> netCache
            next == IF netCall = "updateAnalysis" /\ netFetch.to # "record store" /\ ok
                    THEN LET first == getClientToken(cache) IN
                         IF first = NoFetch
                         THEN fetchWithAuthRequest([signal |-> netTimer # "none"])
                         ELSE first
                    ELSE NoFetch
        IN  /\ netCache' = cache
            /\ IF next # NoFetch /\ ~(next.signal /\ netTimer = "fired")
               THEN netFetch' = next /\ netResult' = "none"
               ELSE /\ netFetch' = NoFetch
                    /\ netResult' = IF ok /\ next = NoFetch THEN "success" ELSE "failure"
    /\ UNCHANGED <<netCall, netTimer, netCalls, notNetVars>>

\* The timer of withTimeout fires: controller.abort() fails the request that
\* carries the signal, and no other.
Timeout ==
    /\ netTimer = "armed"
    /\ netTimer' = "fired"
    /\ IF netFetch # NoFetch /\ netFetch.signal
       THEN netFetch' = NoFetch /\ netResult' = "failure"
       ELSE UNCHANGED <<netFetch, netResult>>
    /\ UNCHANGED <<netCall, netCache, netCalls, notNetVars>>

NextNet ==
    \/ NetCall
    \/ Answer
    \/ Timeout

NetIdle ==
    /\ netCall = "none"
    /\ netFetch = NoFetch
    /\ netTimer = "none"
    /\ netResult = "none"
    /\ netCache = [publicKey |-> FALSE, token |-> FALSE]
    /\ netCalls = 0

\* ------------------------- migrateAndUpdateStudy (tasks/migrateAndUpdateStudy.ts)

\* The migration chain of the run: two connected transforms whose transformers
\* check the analysis against their input schema, as the consensus_sequence
\* transforms do.
CS3 == [name |-> "cs", version |-> 3]
CS4 == [name |-> "cs", version |-> 4]
consensusSequenceMigrationChain ==
    createTransformChain(<<defineTransform(T1, T2, "validate"),
                           defineTransform(T2, CS3, "validate")>>).data

\* The analyses a page may hold: at the chain's start, half way (which the
\* chain's first transform does not take), at its end, beyond its end, of
\* another kind below the end version, and at the chain's start with content the
\* first transformer rejects.
Invalid(type) == Rec(type, <<>>, "invalid", type)
Pages ==
    {<<>>,
     <<Plain(T1)>>,
     <<Plain(CS3)>>,
     <<Plain(CS4), Plain(T2), Plain(CS3)>>,
     <<Invalid(T1), Plain(T1)>>,
     <<Plain(CS3), Plain(T3), Plain(T1)>>,
     <<Plain(T1), Plain(T1), Plain(T1)>>}

\* The positions in a page.
Positions == UNION {DOMAIN page : page \in Pages}

\* What the record store does with one update request.
Responses == {"ok", "error response", "fetch failed", "throws"}

\* filterSkippedAnalyses keeping the analyses at the end version as well.
filterSkippedAnalysesInclusive(analyses) ==
    LET end == getEnd(consensusSequenceMigrationChain).value
        filtered == SelectSeq(analyses, LAMBDA analysis : analysis.analysisType.version <= end.version)
    IN  [filtered |-> filtered, skipped |-> Len(analyses) - Len(filtered)]

\* filterSkippedAnalyses: the analyses below the version of the chain's end,
\* and how many were left out.
filterSkippedAnalyses(analyses) ==
    LET end == getEnd(consensusSequenceMigrationChain).value
        filtered == SelectSeq(analyses, LAMBDA analysis : analysis.analysisType.version < end.version)
    IN  [filtered |-> filtered, skipped |-> Len(analyses) - Len(filtered)]

\* migrateAnalyses: the chain applied to every analysis, one Result each.
migrateAnalyses(analyses) ==
    [k \in 1..Len(analyses) |-> chainApply(consensusSequenceMigrationChain, analyses[k]).res]

\* once(fn): fn runs on the first call only.
once(called, old, new) == IF called THEN old ELSE new

\* songClient.updateAnalysis(analysis), by what the record store does.
updateAnalysis(response, analysis) ==
    CASE response = "ok" -> Outcome(FALSE, success(analysis), <<"updateAnalysis">>)
      [] response = "error response" ->
            Outcome(FALSE,
                    failure(<<Msg("Error response from Song for Update Analysis request", -1, <<>>)>>),
                    <<"updateAnalysis">>)
      [] response = "fetch failed" ->
            Outcome(FALSE, failure(<<Msg("Failed to update analysis in song", -1, <<>>)>>),
                    <<"updateAnalysis">>)
      [] OTHER -> Outcome(TRUE, Msg("thrown error", -1, <<"updateAnalysis">>), <<"updateAnalysis">>)

\* sendAnalysisUpdate without the catch of its wrapper: what updateAnalysis
\* throws is lost and the call resolves to a Success of nothing.
sendAnalysisUpdateNoCatch(response, input) ==
    LET inputResult == asResult(input) IN
    IF ~inputResult.success
    THEN Outcome(FALSE, failure(inputResult.errors), <<>>)
    ELSE LET r == updateAnalysis(response, inputResult.data) IN
         IF r.threw THEN Outcome(FALSE, success(NoRecord), r.called)
         ELSE Outcome(FALSE, asResult(r.value), r.called)

\* sendAnalysisUpdate handing a Failure of the migration to updateAnalysis all
\* the same.
sendAnalysisUpdateAlways(response, input) ==
    LET r == updateAnalysis(response, IF input.success THEN input.data ELSE NoRecord) IN
    IF r.threw THEN Outcome(FALSE, failure(<<r.value>>), r.called)
    ELSE Outcome(FALSE, asResult(r.value), r.called)

\* What the promise of sendAnalysisUpdate(input) resolves to:
\* withResultAsync(songClient.updateAnalysis) on one element of the migrated
\* page, run by the limiter.
sendAnalysisUpdate(response, input) ==
    LET inputResult == asResult(input) IN
    IF ~inputResult.success
    THEN Outcome(FALSE, failure(inputResult.errors), <<>>)
    ELSE LET r == updateAnalysis(response, inputResult.data) IN
         IF r.threw THEN Outcome(FALSE, failure(<<r.value>>), r.called)
         ELSE Outcome(FALSE, asResult(r.value), r.called)

\* One call of sendAnalysisUpdate: the analysis it is for, the Result of its
\* migration, where the call is (queued in the limiter, running, settled),
\* whether updateAnalysis was invoked, what the record store did with the
\* request and what the call resolved to.
NoResult == [success |-> FALSE, data |-> <<>>, errors |-> <<>>, none |-> TRUE]
Update(analysis, migrated) ==
    [analysis |-> analysis, migrated |-> migrated, state |-> "queued", called |-> FALSE,
     response |-> "none", result |-> NoResult]

\* The limiter starting the calls in started: the work function runs up to
\* its first await, which invokes updateAnalysis unless the input is a Failure.
Started(updates, started) ==
    [k \in 1..Len(updates) |->
        IF k \in Range(started)
        THEN [updates[k] EXCEPT !.state = "running",
                                !.called = sendAnalysisUpdate("ok", updates[k].migrated).called # <<>>]
        ELSE updates[k]]

\* A call of a function made by limitConcurrency: the call of the function
\* limited is added as work to the PromiseQueue, which starts it if it has a
\* free slot.
limitConcurrency(a, q, k) == attemptStart(a, queueAdd(q, k))

RECURSIVE mapSend(_, _, _, _)
\* input.map(sendAnalysisUpdate) from element k on.
mapSend(updates, k, a, q) ==
    IF k > Len(updates) THEN [updates |-> updates, active |-> a, queue |-> q]
    ELSE LET r == limitConcurrency(a, q, k) IN
         mapSend(Started(updates, r.started), k + 1, r.active, r.queue)

\* Promise.all resolving as soon as one of the promises has.
promiseAny(updates) == \E k \in 1..Len(updates) : updates[k].state = "settled"

\* Promise.all over promises that never reject: resolved once all have.
promiseAll(updates) == \A k \in 1..Len(updates) : updates[k].state = "settled"

\* The forEach over pageResult.data counting an error as processed twice.
tallyTwice(summary, results) ==
    LET ok == Cardinality({k \in 1..Len(results) : results[k].success})
        failed == Len(results) - ok
    IN  [summary EXCEPT !.successful = @ + ok, !.error = @ + failed,
                        !.processed = @ + ok + failed + failed]

\* The forEach over pageResult.data.
tally(summary, results) ==
    LET ok == Cardinality({k \in 1..Len(results) : results[k].success})
        failed == Len(results) - ok
    IN  [summary EXCEPT !.successful = @ + ok, !.error = @ + failed,
                        !.processed = @ + ok + failed]

\* fetchNextPage moving the offset on by the number of analyses received.
fetchNextPageByLength(page, total, offset, size) ==
    [totalAnalyses |-> total, nextOffset |-> offset + Len(page)]

\* fetchNextPage leaving out one record between two pages.
fetchNextPageSkipping(page, total, offset, size) ==
    [totalAnalyses |-> total, nextOffset |-> offset + size + 1]

\* fetchNextPage after a successful getAnalysesPage.
fetchNextPage(page, total, offset, size) ==
    [totalAnalyses |-> total, nextOffset |-> offset + size]

\* The test of the while loop.
loopGoesOn(offset, total) == offset < total

\* return summary with completed set all the same.
returnSummaryAsCompleted(summary) == [summary EXCEPT !.completed = TRUE]

\* return summary, after a page result that is a Failure.
returnSummary(summary) == summary

\* return { ...summary, completed: true }, after the loop.
returnCompleted(summary) == [summary EXCEPT !.completed = TRUE]

\* How many records a study of total records has from offset on, up to limit
\* of them: what getAnalysesPage of a record store that stands still returns.
Held(offset, limit, total) ==
    IF offset >= total THEN 0
    ELSE IF offset + limit <= total THEN limit ELSE total - offset

\* The analyses of a page below the end version of the chain.
Below(page) ==
    SelectSeq(page, LAMBDA analysis :
        analysis.analysisType.version < getEnd(consensusSequenceMigrationChain).value.version)

NoSummary ==
    [completed |-> FALSE, successful |-> 0, error |-> 0, skipped |-> 0, processed |-> 0,
     total |-> 0, none |-> TRUE]

InitMU ==
    /\ muPhase = "idle"
    /\ muPageSize \in 1..MaxPageSize
    /\ muTotal = 1
    /\ muOffset = 0
    /\ muSummary = [completed |-> FALSE, successful |-> 0, error |-> 0, skipped |-> 0,
                    processed |-> 0, total |-> 0]
    /\ muOnce = FALSE
    /\ muAnalyses = <<>>
    /\ muUpdates = <<>>
    /\ muFetches = 0
    /\ muReturned = NoSummary
    /\ muLedger = [pages |-> 0, total |-> 0, successful |-> 0, error |-> 0, skipped |-> 0,
                   steady |-> TRUE]

\* No run.
MuIdle ==
    /\ muPhase = "idle"
    /\ muPageSize = 1
    /\ muTotal = 1
    /\ muOffset = 0
    /\ muSummary = [completed |-> FALSE, successful |-> 0, error |-> 0, skipped |-> 0,
                    processed |-> 0, total |-> 0]
    /\ muOnce = FALSE
    /\ muAnalyses = <<>>
    /\ muUpdates = <<>>
    /\ muFetches = 0
    /\ muReturned = NoSummary
    /\ muLedger = [pages |-> 0, total |-> 0, successful |-> 0, error |-> 0, skipped |-> 0,
                   steady |-> TRUE]

\* The call of the function migrateAndUpdateStudy(songClient) returns, up to
\* its first await: the first test of the loop and the first page request.
Run ==
    /\ muPhase = "idle"
    /\ IF loopGoesOn(muOffset, muTotal)
       THEN /\ muPhase' = "fetching"
            /\ muFetches' = muFetches + 1
            /\ muReturned' = muReturned
       ELSE /\ muPhase' = "done"
            /\ muFetches' = muFetches
            /\ muReturned' = returnCompleted(muSummary)
    /\ UNCHANGED <<muPageSize, muTotal, muOffset, muSummary, muOnce, muAnalyses, muUpdates,
                   muLedger, notMuVars>>

\* getAnalysesPage resolves to a Failure: the pipe hands it through and the
\* run returns its summary.
FetchFails ==
    /\ muPhase = "fetching"
    /\ muPhase' = "aborted"
    /\ muReturned' = returnSummary(muSummary)
    /\ UNCHANGED <<muPageSize, muTotal, muOffset, muSummary, muOnce, muAnalyses, muUpdates,
                   muFetches, muLedger, notMuVars>>

\* getAnalysesPage resolves to a Success: fetchNextPage notes the total and
\* moves the offset, applyMigrationsToPage filters and migrates the page, and
\* mapAsync calls sendAnalysisUpdate on every element.
FetchSucceeds ==
    /\ muPhase = "fetching"
    /\ \E page \in Pages, total \in 0..MaxTotal :
        LET next == fetchNextPage(page, total, muOffset, muPageSize)
            f == filterSkippedAnalyses(page)
            migrated == migrateAnalyses(f.filtered)
            sent == mapSend([k \in 1..Len(migrated) |-> Update(f.filtered[k], migrated[k])],
                            1, activeProcesses, queue)
        IN  /\ muTotal' = next.totalAnalyses
            /\ muOffset' = next.nextOffset
            /\ muOnce' = TRUE
            /\ muSummary' = [muSummary EXCEPT !.total = once(muOnce, @, total),
                                              !.skipped = @ + f.skipped,
                                              !.processed = @ + f.skipped]
            /\ muAnalyses' = page
            /\ muLedger' = [muLedger EXCEPT
                    !.pages = @ + 1, !.total = total,
                    !.skipped = @ + Len(page) - Len(Below(page)),
                    !.steady = /\ @
                               /\ muLedger.pages = 0 \/ total = muLedger.total
                               /\ Len(page) = Held(muOffset, muPageSize, total)]
            /\ muUpdates' = sent.updates
            /\ activeProcesses' = sent.active
            /\ queue' = sent.queue
    /\ muPhase' = "updating"
    /\ UNCHANGED <<muPageSize, muFetches, muReturned, limiterRest, notLimiterVars>>

\* The promise of a running sendAnalysisUpdate call settles; the limiter
\* frees its slot and starts the next call in its queue.
UpdateSettles(k) ==
    /\ muPhase \in {"updating", "fetching"}
    /\ k \in 1..Len(muUpdates)
    /\ muUpdates[k].state = "running"
    /\ \E response \in IF muUpdates[k].called THEN Responses ELSE {"none"} :
        LET out == sendAnalysisUpdate(response, muUpdates[k].migrated)
            r == onResolved(activeProcesses, queue)
        IN  /\ muUpdates' = Started([muUpdates EXCEPT ![k].state = "settled",
                                                      ![k].response = response,
                                                      ![k].result = out.value],
                                    r.started)
            /\ activeProcesses' = r.active
            /\ queue' = r.queue
            /\ muLedger' = IF out.value.success
                           THEN [muLedger EXCEPT !.successful = @ + 1]
                           ELSE [muLedger EXCEPT !.error = @ + 1]
    /\ UNCHANGED <<muPhase, muPageSize, muTotal, muOffset, muSummary, muOnce, muAnalyses,
                   muFetches, muReturned, limiterRest, notLimiterVars>>

\* Promise.all has resolved: the outcomes of the page are counted, and the
\* loop goes round (next page request) or the run returns.
PageDone ==
    /\ muPhase = "updating"
    /\ promiseAll(muUpdates)
    /\ muSummary' = tally(muSummary, [k \in 1..Len(muUpdates) |-> muUpdates[k].result])
    /\ IF loopGoesOn(muOffset, muTotal)
       THEN /\ muFetches < MaxFetches
            /\ muPhase' = "fetching"
            /\ muFetches' = muFetches + 1
            /\ muReturned' = muReturned
       ELSE /\ muPhase' = "done"
            /\ muFetches' = muFetches
            /\ muReturned' = returnCompleted(muSummary')
    /\ UNCHANGED <<muPageSize, muTotal, muOffset, muOnce, muAnalyses, muUpdates, muLedger,
                   notMuVars>>

NextMU ==
    \/ Run
    \/ FetchFails
    \/ FetchSucceeds
    \/ \E k \in Positions : UpdateSettles(k)
    \/ PageDone

\* ------------------------------------------------ Ego client (external/ego)

\* The callers of one Ego client and the functions it returns.
Callers == 1..MaxCallers
EgoKinds == {"getPublicKey", "getClientToken", "fetchWithAuth"}

\* No token stored; a stored token is the number of the token request that
\* gave it and whether jwt.verify accepts it.
NoToken == [id |-> 0, valid |-> FALSE]
\* A call not made yet. A call made has the function called, how far it got,
\* and once it returns its Result: the token of a Success, the request that
\* failed of a Failure.
NoEgoCall == [kind |-> "none", stage |-> "idle", success |-> FALSE, token |-> 0,
              failed |-> "none"]
\* A gate made by limitConcurrency(1, fn): the PromiseQueue's running count and
\* its queue of callers.
OpenGate == [active |-> 0, queue |-> <<>>]

\* getPublicKey up to its await: the stored key if there is one, a request
\* otherwise.
getPublicKey(publicKey) == IF publicKey THEN "returning" ELSE "key request"

\* getClientToken asking for a new token whatever is stored.
getClientTokenAlways(token) == "token request"

\* getClientToken once it has the public key: the stored token if jwt.verify
\* accepts it, a request for a new one otherwise.
getClientTokenWithKey(token) == IF token.valid THEN "returning" ELSE "token request"

\* Where a call of the kind given gets to when the gate starts it, and where a
\* token call gets to when its key request has succeeded.
bodyFrom(kind, publicKey, token) ==
    IF kind = "getPublicKey" \/ getPublicKey(publicKey) = "key request"
    THEN getPublicKey(publicKey)
    ELSE getClientTokenWithKey(token)

\* The call c after its body ran from the start (or from the key's arrival)
\* with the key and token stored.
Advanced(c, publicKey, token) ==
    LET stage == bodyFrom(c.kind, publicKey, token) IN
    [c EXCEPT !.stage = stage,
              !.success = (stage = "returning"),
              !.token = IF stage = "returning" /\ c.kind # "getPublicKey" THEN token.id ELSE 0]

\* The calls after the gate started the callers in started.
EgoStarted(calls, started, publicKey, token) ==
    [i \in Callers |->
        IF i \in Range(started) THEN Advanced(calls[i], publicKey, token) ELSE calls[i]]

\* The number of calls at the stage given.
Sent(calls, stage) == Cardinality({i \in Callers : calls[i].stage = stage})

InitEgo ==
    /\ egoPublicKey = FALSE
    /\ egoToken = NoToken
    /\ egoCalls = [i \in Callers |-> NoEgoCall]
    /\ egoTokenGate = OpenGate
    /\ egoKeyGate = OpenGate
    /\ egoRequests = [key |-> 0, token |-> 0, keyFailed |-> FALSE, first |-> "none"]

\* A caller calls getPublicKey, getClientToken or fetchWithAuth of the client:
\* its work goes to the gate of the function, which starts it if it is free.
EgoCall(i) ==
    /\ egoCalls[i].stage = "idle"
    /\ \A j \in Callers : j < i => egoCalls[j].stage # "idle"
    /\ \E kind \in EgoKinds :
        LET gate == IF kind = "getPublicKey" THEN egoKeyGate ELSE egoTokenGate
            r == limitConcurrency(gate.active, gate.queue, i)
            calls == EgoStarted([egoCalls EXCEPT ![i] = [NoEgoCall EXCEPT !.kind = kind,
                                                                          !.stage = "queued"]],
                                r.started, egoPublicKey, egoToken)
            after == [active |-> r.active, queue |-> r.queue]
        IN  /\ egoCalls' = calls
            /\ egoKeyGate' = IF kind = "getPublicKey" THEN after ELSE egoKeyGate
            /\ egoTokenGate' = IF kind = "getPublicKey" THEN egoTokenGate ELSE after
            /\ egoRequests' =
                [egoRequests EXCEPT !.key = @ + Sent(calls, "key request")
                                              - Sent(egoCalls, "key request"),
                                    !.token = @ + Sent(calls, "token request")
                                                - Sent(egoCalls, "token request")]
    /\ UNCHANGED <<egoPublicKey, egoToken, notEgoVars>>

\* The public-key endpoint answers caller i: the key is stored on success, and
\* a token call goes on to its token; a failure ends the call.
KeyAnswer(i) ==
    /\ egoCalls[i].stage = "key request"
    /\ \E ok \in BOOLEAN :
        LET c == IF ok
                 THEN IF egoCalls[i].kind = "getPublicKey"
                      THEN [egoCalls[i] EXCEPT !.stage = "returning", !.success = TRUE]
                      ELSE Advanced(egoCalls[i], TRUE, egoToken)
                 ELSE [egoCalls[i] EXCEPT !.stage = "returning", !.success = FALSE,
                                          !.failed = "key"]
        IN  /\ egoPublicKey' = (egoPublicKey \/ ok)
            /\ egoCalls' = [egoCalls EXCEPT ![i] = c]
            /\ egoRequests' =
                [egoRequests EXCEPT !.keyFailed = @ \/ ~ok,
                                    !.token = @ + IF c.stage = "token request" THEN 1 ELSE 0]
    /\ UNCHANGED <<egoToken, egoTokenGate, egoKeyGate, notEgoVars>>

\* The token endpoint answers caller i: with a token jwt.verify accepts, with
\* one it does not, or with a failure. A token received is stored and returned.
TokenAnswer(i) ==
    /\ egoCalls[i].stage = "token request"
    /\ \E answer \in {"valid", "invalid", "failure"} :
        /\ egoToken' = IF answer = "failure" THEN egoToken
                       ELSE [id |-> egoRequests.token, valid |-> answer = "valid"]
        /\ egoCalls' = [egoCalls EXCEPT ![i].stage = "returning",
                                        ![i].success = (answer # "failure"),
                                        ![i].token = IF answer = "failure" THEN 0
                                                     ELSE egoRequests.token,
                                        ![i].failed = IF answer = "failure" THEN "token"
                                                      ELSE "none"]
        /\ egoRequests' = [egoRequests EXCEPT !.first = IF @ = "none" THEN answer ELSE @]
    /\ UNCHANGED <<egoPublicKey, egoTokenGate, egoKeyGate, notEgoVars>>

\* The promise of caller i's work has resolved: the gate frees its slot and
\* starts the next caller in its queue; fetchWithAuth goes on to its own
\* request if it has a token.
EgoRelease(i) ==
    /\ egoCalls[i].stage = "returning"
    /\ LET kind == egoCalls[i].kind
           gate == IF kind = "getPublicKey" THEN egoKeyGate ELSE egoTokenGate
           r == onResolved(gate.active, gate.queue)
           left == [egoCalls EXCEPT ![i].stage =
                        IF kind = "fetchWithAuth" /\ egoCalls[i].success
                        THEN "request" ELSE "settled"]
           calls == EgoStarted(left, r.started, egoPublicKey, egoToken)
           after == [active |-> r.active, queue |-> r.queue]
       IN  /\ egoCalls' = calls
           /\ egoKeyGate' = IF kind = "getPublicKey" THEN after ELSE egoKeyGate
           /\ egoTokenGate' = IF kind = "getPublicKey" THEN egoTokenGate ELSE after
           /\ egoRequests' =
                [egoRequests EXCEPT !.key = @ + Sent(calls, "key request")
                                              - Sent(egoCalls, "key request"),
                                    !.token = @ + Sent(calls, "token request")
                                                - Sent(egoCalls, "token request")]
    /\ UNCHANGED <<egoPublicKey, egoToken, notEgoVars>>

\* The request of fetchWithAuth settles.
RequestAnswer(i) ==
    /\ egoCalls[i].stage = "request"
    /\ egoCalls' = [egoCalls EXCEPT ![i].stage = "settled"]
    /\ UNCHANGED <<egoPublicKey, egoToken, egoTokenGate, egoKeyGate, egoRequests, notEgoVars>>

NextEgo ==
    \/ \E i \in Callers : EgoCall(i)
    \/ \E i \in Callers : KeyAnswer(i)
    \/ \E i \in Callers : TokenAnswer(i)
    \/ \E i \in Callers : EgoRelease(i)
    \/ \E i \in Callers : RequestAnswer(i)

\* ---------------------------------------------------------- run() (index.ts)

\* The studies getAvailableStudies lists are 1..n for an n up to MaxStudies.
Studies == 1..MaxStudies
\* What getSecrets may come to: a rejected promise, secrets that lack the
\* application id or the application secret, or secrets that have both.
SecretOutcomes == {"rejected", "no id", "no secret", "ok"}
\* What getAvailableStudies may come to: a Success of the list, a Failure, or
\* a rejected promise.
ListingKinds == {"success", "failure", "reject"}

\* One line of the log.
LogLine(level, text, about) == [level |-> level, text |-> text, about |-> about]
UncaughtError(cause) == LogLine("error", "Uncaught error during pipeline execution", cause)
SomeIncomplete(studies) ==
    LogLine("warn", "Some studies did not complete, we may need to repeat the migration pipeline",
            studies)
CompletedWithoutError == LogLine("info", "Migration pipeline completed without error.", <<>>)
AllDone == LogLine("info", "All done! Exiting!", <<>>)
\* What run() logs before it builds the pipe.
Beginning ==
    <<LogLine("info", "Beginning Migration Script", <<>>), LogLine("info", "Song", <<>>),
      LogLine("info", "Ego", <<>>), LogLine("info", "Migration Version", <<>>)>>
\* The lines of the two pipeLog steps of the pipe.
StudiesToMigrate == LogLine("debug", "Studies to Migrate", <<>>)
Summary == LogLine("info", "Summary", <<>>)

\* What the pipeLog step of the name given logs if the pipe calls it.
pipeLog(name, line, steps) == IF name \in steps THEN <<line>> ELSE <<>>

\* The pipe of run(): the listing, a log step, the migration of every study
\* listed, a log step.
runPipe(kind) ==
    into(await(into(asyncPipe(Fn("getAvailableStudies", kind)),
                    Fn("pipeLog: Studies to Migrate", "value")),
               Fn("mapAsync(limitedMigrateStudy)", "value")),
         Fn("pipeLog: Summary", "value"))

\* The steps of the pipe that get called for a listing of the kind given.
stepsCalled(kind) == Range(run(runPipe(kind), NoRecord).called)

\* const summary of a study run, without its study.
NewSummary ==
    [completed |-> FALSE, successful |-> 0, error |-> 0, skipped |-> 0, processed |-> 0,
     total |-> 0]

\* The summary a study run returns: after its loop, or on a failed page.
StudySummary(study, completed) ==
    [study |-> study,
     completed |-> IF completed THEN returnCompleted(NewSummary).completed
                   ELSE returnSummary(NewSummary).completed]

\* summary.data.filter(...).map(...) naming every study.
failuresAll(summaries) == [k \in 1..Len(summaries) |-> summaries[k].study]

\* summary.data.filter((study) => !study.completed).map((study) => study.study)
failures(summaries) ==
    LET notCompleted == SelectSeq(summaries, LAMBDA study : ~study.completed)
    IN  [k \in 1..Len(notCompleted) |-> notCompleted[k].study]

\* What run() logs from the pipe's result to its end.
endOfRun(succeeded, summaries) ==
    (IF succeeded /\ Len(failures(summaries)) > 0
     THEN <<SomeIncomplete(failures(summaries))>>
     ELSE <<>>)
    \o <<CompletedWithoutError, AllDone>>

\* A study run: not called for yet, waiting in the limiter, running, returned.
StudyRun(study, state, completed) ==
    [study |-> study, state |-> state, completed |-> completed]

RECURSIVE mapMigrate(_, _, _, _)
\* mapAsync(limitedMigrateStudy): the limited function called on every study
\* listed, in order.
mapMigrate(runs, k, a, q) ==
    IF k > Len(runs) THEN [runs |-> runs, active |-> a, queue |-> q]
    ELSE LET r == limitConcurrency(a, q, k)
             now == [j \in 1..Len(runs) |->
                        IF j \in Range(r.started) THEN [runs[j] EXCEPT !.state = "running"]
                        ELSE IF j = k THEN [runs[j] EXCEPT !.state = "queued"]
                        ELSE runs[j]]
         IN  mapMigrate(now, k + 1, r.active, r.queue)

\* The summaries of the study runs, in the order of the listing.
Summaries(runs) == [k \in 1..Len(runs) |-> StudySummary(runs[k].study, runs[k].completed)]

InitRun ==
    /\ runPhase = "idle"
    /\ runListing = "none"
    /\ runStudies = <<>>
    /\ runGate = OpenGate
    /\ runLog = <<>>
    /\ runExit = <<>>

\* run() is called: up to await getSecrets().
RunStart ==
    /\ runPhase = "idle"
    /\ runPhase' = "secrets"
    /\ UNCHANGED <<runListing, runStudies, runGate, runLog, runExit, notRunVars>>

\* getSecrets settles. A rejection, or secrets without the application
\* credentials (the throw of run), goes to the catch block: the error is logged
\* and process.exit(1) is called. Otherwise the pipe is started.
SecretsSettle ==
    /\ runPhase = "secrets"
    /\ \E outcome \in SecretOutcomes :
        IF outcome = "ok"
        THEN /\ runPhase' = "listing"
             /\ runLog' = runLog \o Beginning
             /\ runExit' = runExit
        ELSE /\ runPhase' = "exited"
             /\ runLog' = Append(runLog, UncaughtError(outcome))
             /\ runExit' = <<1>>
    /\ UNCHANGED <<runListing, runStudies, runGate, notRunVars>>

\* getAvailableStudies settles. The pipe calls its later steps or hands a
\* Failure through; with the migration step called, every study listed goes to
\* the limiter; with no study to wait for, run() goes on to its end.
ListingSettles ==
    /\ runPhase = "listing"
    /\ \E kind \in ListingKinds, n \in 0..MaxStudies :
        LET steps == stepsCalled(kind)
            migrating == "mapAsync(limitedMigrateStudy)" \in steps
            first == pipeLog("pipeLog: Studies to Migrate", StudiesToMigrate, steps)
            last == pipeLog("pipeLog: Summary", Summary, steps)
            m == mapMigrate([k \in 1..n |-> StudyRun(k, "listed", FALSE)], 1,
                            runGate.active, runGate.queue)
        IN  /\ kind # "success" => n = 0
            /\ runListing' = kind
            /\ IF migrating /\ n > 0
               THEN /\ runStudies' = m.runs
                    /\ runGate' = [active |-> m.active, queue |-> m.queue]
                    /\ runPhase' = "migrating"
                    /\ runLog' = runLog \o first
               ELSE /\ runStudies' = <<>>
                    /\ runGate' = runGate
                    /\ runPhase' = "ended"
                    /\ runLog' = runLog \o first \o last \o endOfRun(migrating, <<>>)
    /\ UNCHANGED <<runExit, notRunVars>>

\* The run of study k returns its summary: the limiter starts the next study,
\* and after the last one Promise.all resolves and run() goes on to its end.
StudySettles(k) ==
    /\ runPhase = "migrating"
    /\ k \in 1..Len(runStudies)
    /\ runStudies[k].state = "running"
    /\ \E completed \in BOOLEAN :
        LET r == onResolved(runGate.active, runGate.queue)
            runs == [j \in 1..Len(runStudies) |->
                        IF j = k THEN StudyRun(k, "returned", completed)
                        ELSE IF j \in Range(r.started)
                             THEN [runStudies[j] EXCEPT !.state = "running"]
                             ELSE runStudies[j]]
            all == \A j \in 1..Len(runs) : runs[j].state = "returned"
        IN  /\ runStudies' = runs
            /\ runGate' = [active |-> r.active, queue |-> r.queue]
            /\ runPhase' = IF all THEN "ended" ELSE "migrating"
            /\ runLog' = IF all
                         THEN runLog
                              \o pipeLog("pipeLog: Summary", Summary, stepsCalled(runListing))
                              \o endOfRun(TRUE, Summaries(runs))
                         ELSE runLog
    /\ UNCHANGED <<runListing, runExit, notRunVars>>

NextRun ==
    \/ RunStart
    \/ SecretsSettle
    \/ ListingSettles
    \/ \E k \in Studies : StudySettles(k)

\* ------------------------------------ migrateAndUpdateStudy: specifications

MUInit == InitMU /\ InitPQ /\ InitTC /\ InitRes /\ InitQu /\ NetIdle /\ InitEgo /\ InitRun

SpecMU == MUInit /\ [][NextMU]_vars

\* Every page request and every update call settles in the end.
LiveSpecMU ==
    /\ MUInit /\ [][NextMU]_vars
    /\ WF_vars(Run) /\ WF_vars(FetchFails \/ FetchSucceeds) /\ WF_vars(PageDone)
    /\ \A k \in Positions : WF_vars(UpdateSettles(k))

\* ------------------------------------------ PromiseQueue: specifications

PQInit == InitPQ /\ InitTC /\ InitRes /\ InitQu /\ InitMU /\ NetIdle /\ InitEgo /\ InitRun

SpecPQ == PQInit /\ [][NextPQ]_vars

\* Every work item resolves, and a work that has started settles in the end.
NextPQResolving ==
    \/ \E i \in Items : Add(i)
    \/ OnError
    \/ \E i \in Items : Resolve(i)

LiveSpecPQ ==
    PQInit /\ [][NextPQResolving]_vars /\ \A i \in Items : WF_vars(Resolve(i))

\* Listeners may throw.
SpecPQThrowing == PQInit /\ [][NextPQThrowing]_vars

\* ------------------------------------------------------ PromiseQueue: claims

StartItems == SelectSeq(events, LAMBDA e : e.type = "start")
StartsOf(i) == Cardinality({k \in 1..Len(events) : events[k].type = "start" /\ events[k].item = i})
Settled == {"resolved", "rejected"}
\* Some item was admitted by the drain that follows a settled item.
AdmittedByDrain ==
    \E k \in 1..(Len(events) - 1) :
        events[k].type \in {"finish", "error"} /\ events[k + 1].type = "start"

\* C1: getRunning() is between 0 and maxConcurrency after any interleaving of
\* add calls, completions and rejections.
C1_RunningWithinLimit == activeProcesses >= 0 /\ activeProcesses <= maxConcurrency

\* All slots taken again while an item waits, after a rejection freed one.
C1_Witness ==
    /\ activeProcesses = maxConcurrency
    /\ maxConcurrency > 1
    /\ Len(queue) > 0
    /\ \E i \in Items : status[i] = "rejected"

\* C2: when every work resolves, every added item is started in the end and
\* finishes in the end; the pending queue drains and no item is left running.
C2_AllEventuallyFinish ==
    /\ \A i \in Items : (status[i] = "pending") ~> (status[i] = "running")
    /\ \A i \in Items : (status[i] = "running") ~> (status[i] = "resolved")
    /\ []<>(Len(queue) = 0 /\ activeProcesses = 0)

\* Every item finished, one of them after waiting for a slot.
C2_Witness ==
    /\ \A i \in Items : status[i] = "resolved"
    /\ Len(queue) = 0 /\ activeProcesses = 0
    /\ AdmittedByDrain

\* C3: work items start in the order of their add calls (items are added in
\* the order of their numbers).
C3_StartOrderIsAddOrder ==
    \A k, l \in 1..Len(StartItems) : k < l => StartItems[k].item < StartItems[l].item

\* Items started at once and items started from the queue, several of each.
C3_Witness ==
    /\ Len(StartItems) = MaxItems
    /\ AdmittedByDrain
    /\ \E k \in 1..Len(events) : events[k].type = "start" /\ events[k].queued > 0

\* C4: every added item is pending (once in the queue), running or settled;
\* getSize() counts the pending items; no item starts twice, none is dropped.
C4_ItemLifecycle ==
    /\ \A i \in Items :
        /\ status[i] \in {"unadded", "pending", "running", "resolved", "rejected"}
        /\ Cardinality({k \in 1..Len(queue) : queue[k] = i})
             = (IF status[i] = "pending" THEN 1 ELSE 0)
        /\ StartsOf(i) = (IF status[i] \in {"running"} \cup Settled THEN 1 ELSE 0)
    /\ Len(queue) = Cardinality({i \in Items : status[i] = "pending"})

\* A pending, a running and a settled item at once.
C4_Witness ==
    /\ \E i \in Items : status[i] = "pending"
    /\ \E i \in Items : status[i] = "running"
    /\ \E i \in Items : status[i] \in Settled

\* C5: a rejection with error listeners registered lowers the running count,
\* calls every error listener once with the error, does not rethrow, and then
\* admits the next pending item.
C5_RejectWithListeners ==
    [][\A i \in Items :
        (status[i] = "running" /\ status'[i] = "rejected" /\ errorActions > 0) =>
            LET new == SubSeq(events', Len(events) + 1, Len(events')) IN
            /\ i \notin thrown'
            /\ Len(new) >= errorActions
            /\ \A k \in 1..errorActions :
                 new[k] = Event("error", i, k, activeProcesses - 1, Len(queue))
            /\ IF Len(queue) > 0
               THEN /\ Len(new) = errorActions + 1
                    /\ new[errorActions + 1].type = "start"
                    /\ new[errorActions + 1].item = Head(queue)
                    /\ status'[Head(queue)] = "running"
                    /\ queue' = Tail(queue)
                    /\ activeProcesses' = activeProcesses
               ELSE /\ Len(new) = errorActions
                    /\ activeProcesses' = activeProcesses - 1]_vars

\* Two listeners were called for a rejection and the next item was admitted.
C5_Witness ==
    /\ thrown = {}
    /\ \E k \in 1..(Len(events) - 1) :
        /\ events[k].type = "error" /\ events[k].listener = 2
        /\ events[k + 1].type = "start"

\* C6: a rejection with no error listener lowers the running count and
\* rethrows: that run of attemptStart ends in an error.
C6_RejectWithoutListeners ==
    [][\A i \in Items :
        (status[i] = "running" /\ status'[i] = "rejected" /\ errorActions = 0) =>
            /\ activeProcesses' = activeProcesses - 1
            /\ i \in thrown'
            /\ thrown' = thrown \cup {i}]_vars

\* An item rejected with no listener while another item was waiting.
C6_Witness ==
    /\ errorActions = 0
    /\ \E i \in thrown : status[i] = "rejected"
    /\ Len(queue) > 0

\* The events a step fired.
NewEvents == SubSeq(events', Len(events) + 1, Len(events'))
\* The items attemptStart has taken and counted whose work has not settled.
StartedNotSettled == {i \in Items : status[i] \in {"running", "abandoned"}}

\* C34: when the work of a running item resolves, the running count is lowered
\* first, the finish listeners are called next with the lowered running count
\* and the pending count of that moment, and the next pending item is admitted
\* only after that: its start event follows the finish event.
C34_FinishBeforeNextStart ==
    [][\A i \in Items :
        (status[i] = "running" /\ status'[i] = "resolved") =>
            /\ Len(NewEvents) >= 1
            /\ NewEvents[1] = Event("finish", i, 0, activeProcesses - 1, Len(queue))
            /\ IF Len(queue) > 0
               THEN /\ Len(NewEvents) = 2
                    /\ NewEvents[2] =
                         Event("start", Head(queue), 0, activeProcesses, Len(queue) - 1)
                    /\ status'[Head(queue)] = "running"
               ELSE Len(NewEvents) = 1]_vars

\* A finish event with the lowered running count, then the start event of the
\* item that took the slot.
C34_Witness ==
    \E k \in 1..(Len(events) - 1) :
        /\ events[k].type = "finish"
        /\ events[k].queued > 0
        /\ events[k + 1].type = "start"
        /\ events[k + 1].running = events[k].running + 1
        /\ status[events[k + 1].item] = "running"

\* C35: add does not wait for any work to settle. Called with a free slot and
\* nothing pending, it starts the work before it returns: the running count
\* goes up by one, the start listeners fire and the work function is invoked.
\* Called with every slot taken, it leaves the work uninvoked and the pending
\* count one higher.
C35_AddStartsOrQueues ==
    [][\A i \in Items :
        (status[i] = "unadded" /\ status'[i] # "unadded") =>
            /\ \A j \in Items : (status'[j] \in Settled) <=> (status[j] \in Settled)
            /\ (activeProcesses < maxConcurrency /\ Len(queue) = 0) =>
                    /\ status'[i] = "running"
                    /\ activeProcesses' = activeProcesses + 1
                    /\ NewEvents = <<Event("start", i, 0, activeProcesses + 1, 0)>>
                    /\ queue' = queue
            /\ activeProcesses = maxConcurrency =>
                    /\ status'[i] = "pending"
                    /\ Len(queue') = Len(queue) + 1
                    /\ queue'[Len(queue')] = i
                    /\ NewEvents = <<>>
                    /\ activeProcesses' = activeProcesses]_vars

\* One work was started by its add call while another was running, and a later
\* one was left pending with every slot taken.
C35_Witness ==
    /\ maxConcurrency = 2
    /\ status[1] = "running" /\ status[2] = "running" /\ status[3] = "pending"
    /\ Len(events) = 2
    /\ events[2] = Event("start", 2, 0, 2, 0)
    /\ queue = <<3>>

\* C36 as stated: whatever the outcomes of the work items, a pending item never
\* waits while a slot is free.
C36_WorkConserving == Len(queue) > 0 => activeProcesses = maxConcurrency

\* C36: as long as no work item has rejected with no error listener
\* registered, a pending item never waits while a slot is free.
C36_WorkConservingUnlessRethrown ==
    thrown = {} => (Len(queue) > 0 => activeProcesses = maxConcurrency)

\* Items have resolved and rejected, none was rethrown, and an item is pending
\* with every slot taken.
C36_Witness ==
    /\ thrown = {}
    /\ \E i \in Items : status[i] = "rejected"
    /\ \E i \in Items : status[i] = "resolved"
    /\ Len(queue) > 0
    /\ activeProcesses = maxConcurrency

\* C37: the running count is the number of work items that have started and
\* not settled, and is never negative, whether or not a listener throws.
C37_RunningCountsStarted ==
    /\ activeProcesses = Cardinality(StartedNotSettled)
    /\ activeProcesses >= 0

\* ------------------------------------------------ Transform chain: specification

PqIdle ==
    /\ maxConcurrency = 1
    /\ activeProcesses = 0
    /\ queue = <<>>
    /\ errorActions = 0
    /\ status = [i \in Items |-> "unadded"]
    /\ events = <<>>
    /\ thrown = {}

TCInit == InitTC /\ PqIdle /\ InitRes /\ InitQu /\ MuIdle /\ NetIdle /\ InitEgo /\ InitRun

NextTC ==
    \/ Create
    \/ ChainAdd
    \/ ChainFrom
    \/ ChainTo
    \/ ChainApply
    \/ TransformApply

SpecTC == TCInit /\ [][NextTC]_vars

\* ------------------------------------------ Result and pipe: specification

ResInit == InitRes /\ PqIdle /\ InitTC /\ InitQu /\ MuIdle /\ NetIdle /\ InitEgo /\ InitRun

SpecRes == ResInit /\ [][NextRes]_vars

\* ------------------------------------------------ Queue on its own: specification

QuInit == InitQu /\ PqIdle /\ InitTC /\ InitRes /\ MuIdle /\ NetIdle /\ InitEgo /\ InitRun

SpecQu == QuInit /\ [][NextQu]_vars

\* ------------------------------------------------ Network calls: specifications

NetInit == InitNet /\ PqIdle /\ InitTC /\ InitRes /\ InitQu /\ MuIdle /\ InitEgo /\ InitRun

SpecNet == NetInit /\ [][NextNet]_vars

\* A timer that is set fires; the remote side may never answer.
LiveSpecNet == NetInit /\ [][NextNet]_vars /\ WF_vars(Timeout)

\* ------------------------------------------------ Ego client: specification

EgoInit == InitEgo /\ PqIdle /\ InitTC /\ InitRes /\ InitQu /\ MuIdle /\ NetIdle /\ InitRun

SpecEgo == EgoInit /\ [][NextEgo]_vars

\* ------------------------------------------------------- Ego client: claims

\* The calls of getClientToken and fetchWithAuth that have their Result.
TokenCallsDone ==
    {i \in Callers : /\ egoCalls[i].kind \in {"getClientToken", "fetchWithAuth"}
                     /\ egoCalls[i].stage \in {"returning", "request", "settled"}}

C32_OneKeyRequest == egoRequests.key <= 1

\* ---------------------------------------------------------- run(): specification

RunInit == InitRun /\ PqIdle /\ InitTC /\ InitRes /\ InitQu /\ MuIdle /\ NetIdle /\ InitEgo

SpecRun == RunInit /\ [][NextRun]_vars

\* ----------------------------------------------------------------- run(): claims

\* The warnings in the log.
Warnings == SelectSeq(runLog, LAMBDA line : line.level = "warn")
\* The studies whose run returned a summary with completed = false, in the
\* order of the listing.
Incomplete ==
    SelectSeq([k \in 1..Len(runStudies) |-> k],
              LAMBDA k : runStudies[k].state = "returned" /\ ~runStudies[k].completed)
\* process.exit(1) was called after an error reached the catch block of run().
ExitedOnError ==
    /\ runExit = <<1>>
    /\ Len(runLog) > 0
    /\ runLog[Len(runLog)] \in {UncaughtError(cause) : cause \in SecretOutcomes \ {"ok"}}

Connected(chain) == \A i \in 2..Len(chain) : chain[i].start = chain[i - 1].end
\* The position (from 1) of the first transform that does not connect.
FirstBreak(chain) ==
    CHOOSE i \in 2..Len(chain) :
        /\ chain[i].start # chain[i - 1].end
        /\ \A j \in 2..(i - 1) : chain[j].start = chain[j - 1].end

\* C7: Transform.apply on a record whose analysisType is not start returns a
\* Failure, calls no transformer and leaves the record as it was; when it
\* returns a Success the record was at start and the result is at end.
C7_TransformChecksAndStamps ==
    tcCall.op = "transform" =>
        LET t == tcCall.transforms[1]
            r == tcCall.given
            o == tcCall.out
        IN  /\ r.analysisType # t.start =>
                /\ ~o.threw
                /\ ~o.res.success
                /\ Len(o.res.errors) >= 1
                /\ o.called = <<>>
                /\ o.input = r
            /\ (~o.threw /\ o.res.success) =>
                /\ r.analysisType = t.start
                /\ o.res.data.analysisType = t.end

\* A record at another version handed to a transform whose transformer would
\* rewrite its argument in place.
C7_Witness ==
    /\ tcCall.op = "transform"
    /\ tcCall.transforms[1].transformer = "mutate"
    /\ tcCall.given.analysisType # tcCall.transforms[1].start
    /\ tcCall.given.analysisType.name = tcCall.transforms[1].start.name

\* C8: createTransformChain succeeds exactly when every transform connects to
\* the one before it, and otherwise fails with a message naming the index of
\* the first transform that does not; chains returned by add, from and to are
\* connected as well.
C8_ChainsAreConnected ==
    /\ tcOp.name = "create" =>
        /\ tcRes.success <=> Connected(tcOp.args)
        /\ tcRes.success => tcRes.data = tcOp.args
        /\ ~tcRes.success =>
            /\ Len(tcRes.errors) = 1
            /\ tcRes.errors[1].index = FirstBreak(tcOp.args) - 1
    /\ (tcOp.name \in {"add", "from", "to"} /\ tcRes.success) => Connected(tcRes.data)
    /\ tcPhase = "built" => Connected(tcChain)

\* Three transforms of which the third is the first that does not connect.
C8_Witness ==
    /\ tcOp.name = "create"
    /\ Len(tcOp.args) = 3
    /\ ~tcRes.success
    /\ tcRes.errors[1].index = 2

\* C9: every chain returned as a Success by createTransformChain, add, from or
\* to holds at least one transform, getStart() is the start of its first
\* transform and getEnd() the end of its last.
C9_ChainNonEmpty ==
    (tcOp.name \in {"create", "add", "from", "to"} /\ tcRes.success) =>
        /\ Len(tcRes.data) >= 1
        /\ ~getStart(tcRes.data).threw
        /\ getStart(tcRes.data).value = tcRes.data[1].start
        /\ ~getEnd(tcRes.data).threw
        /\ getEnd(tcRes.data).value = tcRes.data[Len(tcRes.data)].end

\* C10: when chain.apply(r) returns a Success, r was at the chain's getStart(),
\* the result is at its getEnd(), and every transformer of the chain was
\* invoked once, in chain order.
C10_ApplyAdvancesStartToEnd ==
    (tcCall.op = "chain" /\ tcCall.out.res.success) =>
        LET c == tcCall.transforms
            o == tcCall.out
        IN  /\ ~getStart(c).threw
            /\ tcCall.given.analysisType = getStart(c).value
            /\ ~getEnd(c).threw
            /\ o.res.data.analysisType = getEnd(c).value
            /\ o.called = c

\* The outcomes of transform.apply along the chain from transform k on, each
\* fed the data of the one before, up to the first that is no Success.
RECURSIVE Outcomes(_, _, _)
Outcomes(chain, k, data) ==
    IF k > Len(chain) THEN <<>>
    ELSE LET o == transformApply(chain[k], data) IN
         IF o.threw \/ ~o.res.success THEN <<o>>
         ELSE <<o>> \o Outcomes(chain, k + 1, o.res.data)

\* C11: once the transform at position k returns a Failure, chain.apply
\* invokes no transformer after position k and returns a Failure with that
\* Failure's errors; the caller's record is as it was after the call, whatever
\* the result.
C11_ApplyShortCircuits ==
    tcCall.op = "chain" =>
        LET c == tcCall.transforms
            o == tcCall.out
            first == asResult(tcCall.given)
            outs == IF first.success THEN Outcomes(c, 1, first.data) ELSE <<>>
            k == Len(outs)
        IN  /\ o.input = tcCall.given
            /\ ~o.threw
            /\ Len(o.called) <= Len(c)
            /\ o.called = SubSeq(c, 1, Len(o.called))
            /\ (k >= 1 /\ ~outs[k].threw /\ ~outs[k].res.success) =>
                /\ ~o.res.success
                /\ o.res.errors = outs[k].res.errors
                /\ Len(o.called) <= k

\* The second of three transforms fails after the first rewrote its argument
\* in place.
C11_Witness ==
    /\ tcCall.op = "chain"
    /\ Len(tcCall.transforms) = 3
    /\ tcCall.transforms[1].transformer = "mutate"
    /\ tcCall.transforms[2].transformer = "fail"
    /\ Len(tcCall.out.called) = 2
    /\ ~tcCall.out.res.success
    /\ Len(tcCall.out.res.errors) = 3

\* The positions of the transforms of chain that start, or end, at version.
StartsAt(chain, version) == {k \in 1..Len(chain) : chain[k].start = version}
EndsAt(chain, version) == {k \in 1..Len(chain) : chain[k].end = version}
Least(S) == CHOOSE k \in S : \A j \in S : k <= j

\* C12: chain.from(v) is a Success with the suffix of the chain from the first
\* transform starting at v on (it starts at v and ends where the chain ends),
\* and a Failure when no transform of the chain starts at v.
C12_FromIsSuffix ==
    tcOp.name = "from" =>
        LET c == tcOp.parent
            at == StartsAt(c, tcOp.version)
        IN  IF at = {}
            THEN ~tcRes.success /\ Len(tcRes.errors) >= 1
            ELSE /\ tcRes.success
                 /\ tcRes.data = SubSeq(c, Least(at), Len(c))
                 /\ getStart(tcRes.data) = [threw |-> FALSE, value |-> tcOp.version]
                 /\ getEnd(tcRes.data) = getEnd(c)

\* from(v) on a chain of three transforms of which the second and the third
\* start at v.
C12_Witness ==
    /\ tcOp.name = "from"
    /\ Len(tcOp.parent) = 3
    /\ StartsAt(tcOp.parent, tcOp.version) = {2, 3}
    /\ tcRes.success
    /\ Len(tcRes.data) = 2

\* C13: chain.to(v) is a Success with the prefix of the chain up to and with
\* the first transform ending at v (it ends at v and starts where the chain
\* starts), and a Failure when no transform of the chain ends at v.
C13_ToIsPrefix ==
    tcOp.name = "to" =>
        LET c == tcOp.parent
            at == EndsAt(c, tcOp.version)
        IN  IF at = {}
            THEN ~tcRes.success /\ Len(tcRes.errors) >= 1
            ELSE /\ tcRes.success
                 /\ tcRes.data = SubSeq(c, 1, Least(at))
                 /\ getEnd(tcRes.data) = [threw |-> FALSE, value |-> tcOp.version]
                 /\ getStart(tcRes.data) = getStart(c)

\* to(v) on a chain of three transforms of which the second and the third end
\* at v.
C13_Witness ==
    /\ tcOp.name = "to"
    /\ Len(tcOp.parent) = 3
    /\ EndsAt(tcOp.parent, tcOp.version) = {2, 3}
    /\ tcRes.success
    /\ Len(tcRes.data) = 2

\* c.from(v) succeeded and .to(c.getEnd()) was called on the chain it gave.
FromThenTo ==
    /\ tcOp.name = "to"
    /\ tcOp.before.name = "from"
    /\ tcOp.before.ok
    /\ tcOp.version = getEnd(tcOp.before.parent).value

\* The transforms of chain from the first one starting at version to the last.
SuffixFrom(chain, version) == SubSeq(chain, Least(StartsAt(chain, version)), Len(chain))

\* The result of the call gives, for every record, the Result the chain gives.
AppliesLike(chain) ==
    /\ tcRes.success
    /\ \A r \in Inputs : chainApply(tcRes.data, r).res = chainApply(chain, r).res

\* C14 as stated: for every chain c and version v some transform of c starts
\* at, c.from(v).to(c.getEnd()) succeeds and gives for every record the same
\* Result as the transforms of c from the first starting at v to the last.
C14_FromThenToKeepsSuffix ==
    FromThenTo => AppliesLike(SuffixFrom(tcOp.before.parent, tcOp.before.version))

\* C14 amended: the same, for the chains in which no transform from the first
\* starting at v on, but the last, ends at c.getEnd().
C14_FromThenToKeepsSuffixEndingOnce ==
    LET suffix == SuffixFrom(tcOp.before.parent, tcOp.before.version) IN
    (FromThenTo /\ EndsAt(suffix, tcOp.version) = {Len(suffix)}) =>
        /\ tcRes.data = suffix
        /\ AppliesLike(suffix)

\* from(v).to(end) on a chain of three transforms whose second starts at v and
\* whose third alone ends at the chain's end.
C14_Witness ==
    /\ FromThenTo
    /\ Len(tcOp.before.parent) = 3
    /\ Least(StartsAt(tcOp.before.parent, tcOp.before.version)) = 2
    /\ EndsAt(tcOp.parent, tcOp.version) = {2}
    /\ tcRes.success
    /\ Len(tcRes.data) = 2

C16_FailurePassesThrough ==
    (resCall.op \in {"withResult", "withResultAsync"} /\ resCall.input \in Failures) =>
        /\ ~resCall.out.threw
        /\ ~resCall.out.value.success
        /\ resCall.out.value.errors = resCall.input.errors
        /\ resCall.out.called = <<>>

\* A Failure of two errors went through withResultAsync(f) for an f that
\* would have thrown.
C16_Witness ==
    /\ resCall.op = "withResultAsync"
    /\ resCall.f = "throw"
    /\ resCall.input \in Failures
    /\ Len(resCall.input.errors) = 2
    /\ resCall.out.value = resCall.input

\* C17: withResult(f) and withResultAsync(f) return (or resolve to) a Result for
\* every input and every f and never throw or reject; what f throws, or its
\* promise rejects with, becomes a Failure carrying the message.
C17_WrappersAreTotal ==
    resCall.op \in {"withResult", "withResultAsync"} =>
        /\ ~resCall.out.threw
        /\ "success" \in DOMAIN resCall.out.value
        /\ ("f" \in Range(resCall.out.called) /\ resCall.f \in {"throw", "reject"}) =>
            /\ ~resCall.out.value.success
            /\ Len(resCall.out.value.errors) = 1
            /\ resCall.out.value.errors[1].types = <<"f">>

\* The errors of the Failure a function of this name and kind yields.
ErrorsOf(name, kind) ==
    CASE kind = "failure" -> <<Msg("failed", -1, <<name>>)>>
      [] kind = "throw" -> <<Msg("thrown error", -1, <<name>>)>>
      [] OTHER -> <<Msg("rejection", -1, <<name>>)>>

\* C18: in pipe(f).into(g).check(p, "msg") and its asyncPipe counterpart, when
\* f yields a Failure neither g nor p is called and the result is a Failure
\* with f's errors; when g yields a Failure p is not called; when g yields a
\* Success and p returns false the result is a Failure of "msg" alone; when p
\* returns true the result is the Success of g as into gives it. No step runs
\* on a Failure handed in, and each step runs at most once, in order.
C18_PipeStopsAtFailure ==
    resCall.op \in {"pipe", "asyncPipe"} =>
        LET o == resCall.out
            c == o.called
            ran(name) == name \in Range(c)
            fFails == ran("f") /\ resCall.f \in {"failure", "throw", "reject"}
            gFails == ran("g") /\ resCall.g \in {"failure", "throw"}
            gOk == ran("g") /\ resCall.g \in {"value", "success"}
            start == IF resCall.op = "pipe" THEN pipe(Fn("f", resCall.f))
                     ELSE asyncPipe(Fn("f", resCall.f))
        IN  /\ c = SubSeq(<<"f", "g", "p">>, 1, Len(c))
            /\ fFails => /\ c = <<"f">>
                         /\ o = Outcome(FALSE, failure(ErrorsOf("f", resCall.f)), c)
            /\ gFails => /\ c = <<"f", "g">>
                         /\ o = Outcome(FALSE, failure(ErrorsOf("g", resCall.g)), c)
            /\ (gOk /\ resCall.p = "false") =>
                    o = Outcome(FALSE, failure(<<TheError>>), <<"f", "g", "p">>)
            /\ (gOk /\ resCall.p = "true") =>
                    /\ ~o.threw
                    /\ o.value.success
                    /\ o.value.data.trace = <<"f", "g">>
                    /\ o.value = run(into(start, Fn("g", resCall.g)), resCall.input).value
            /\ resCall.input \in Failures =>
                    o = Outcome(FALSE, failure(resCall.input.errors), <<>>)

\* The test failed on the Success of g in an asyncPipe.
C18_Witness ==
    /\ resCall.op = "asyncPipe"
    /\ resCall.g = "success"
    /\ resCall.p = "false"
    /\ resCall.out = Outcome(FALSE, failure(<<TheError>>), <<"f", "g", "p">>)

\* C19: every Result has one variant, and every Failure that failure(...parts),
\* withResult, withResultAsync or a pipe gives carries at least one error.
C19_FailuresCarryAnError ==
    (resCall.op # "none" /\ ~resCall.out.threw) =>
        LET v == resCall.out.value IN
        IF v.success THEN v.errors = <<>>
        ELSE v.data = <<>> /\ Len(v.errors) >= 1

C20_TakeIsFifo ==
    qOut.op = "take" =>
        IF Len(qOut.before) = 0
        THEN /\ ~qOut.res.success
             /\ qOut.res.errors = <<Msg("Empty Queue", -1, <<>>)>>
             /\ qOut.after = <<>>
             /\ qOut.fired = <<>>
        ELSE /\ qOut.res.success
             /\ qOut.res.data = Head(qOut.before)
             /\ qOut.after = Tail(qOut.before)
             /\ Len(qArray) = Len(qOut.before) - 1
             /\ Len(qOut.fired) = qOut.listeners
             /\ \A k \in 1..Len(qOut.fired) :
                    qOut.fired[k] = [listener |-> k, length |-> Len(qOut.after),
                                     item |-> Head(qOut.before)]

\* C21: add(item) appends the item at the tail and calls every add listener
\* once, in registration order, each with the item and the size of the queue
\* right after the append, whatever the listeners do.
C21_AddNotifiesListeners ==
    qOut.op = "add" =>
        /\ qOut.pushed = Append(qOut.before, qOut.item)
        /\ Len(qOut.fired) = qOut.listeners
        /\ \A k \in 1..Len(qOut.fired) :
                qOut.fired[k] = [listener |-> k, length |-> Len(qOut.before) + 1,
                                 item |-> qOut.item]

\* ------------------------------------------------ migrateAndUpdateStudy: claims

Counts(summary) ==
    [successful |-> summary.successful, error |-> summary.error, skipped |-> summary.skipped]
Returned == "none" \notin DOMAIN muReturned

\* C22: in every state of a run, and in the summary the run returns, processed
\* is the sum of successful, error and skipped.
C22_ProcessedIsTheSum ==
    /\ muSummary.processed = muSummary.successful + muSummary.error + muSummary.skipped
    /\ muReturned.processed = muReturned.successful + muReturned.error + muReturned.skipped
    /\ muPhase \in {"done", "aborted"} <=> Returned

\* A completed run that counted a success, an error and a skip.
C22_Witness ==
    /\ muPhase = "done" /\ Returned /\ muReturned.completed
    /\ muReturned.successful > 0 /\ muReturned.error > 0 /\ muReturned.skipped > 0

\* C23: a run returns completed = true only after the loop ended with the offset
\* at or past the total; a run whose page request failed has stopped with no
\* update queued or in flight and no later page request, and has returned
\* completed = false with the counts of the pages received before.
C23_CompletedOnlyAfterTheLoop ==
    /\ muReturned.completed => muPhase = "done" /\ muOffset >= muTotal
    /\ muPhase = "aborted" =>
            /\ Returned /\ ~muReturned.completed
            /\ Counts(muReturned) = [successful |-> muLedger.successful,
                                     error |-> muLedger.error, skipped |-> muLedger.skipped]
            /\ muFetches = muLedger.pages + 1
            /\ \A k \in 1..Len(muUpdates) : muUpdates[k].state = "settled"
            /\ activeProcesses = 0 /\ queue = <<>>

\* The request of a second page failed after a first page with outcomes of
\* every kind.
C23_Witness ==
    /\ muPhase = "aborted" /\ muFetches > 1
    /\ muReturned.successful > 0 /\ muReturned.error > 0 /\ muReturned.skipped > 0

\* The version of the migration chain's end.
EndVersion == getEnd(consensusSequenceMigrationChain).value.version
\* The positions of a page whose analysis is at or beyond that version.
Current(page) == {k \in 1..Len(page) : page[k].analysisType.version >= EndVersion}
\* The transformers applied to reach a Result of the chain.
Applied(result) == IF result.success THEN result.data.trace ELSE <<>>

\* C24: when a page arrives, each of its analyses at or beyond the version of
\* the chain's end adds one to skipped and one to processed, and none of them
\* is migrated or handed to sendAnalysisUpdate: the calls made are for the
\* other analyses of the page, in their order.
C24_CurrentAnalysesAreSkipped ==
    [][(muPhase = "fetching" /\ muPhase' = "updating") =>
        LET page == muAnalyses'
            others == SelectSeq(page, LAMBDA a : a.analysisType.version < EndVersion)
        IN  /\ muSummary'.skipped = muSummary.skipped + Cardinality(Current(page))
            /\ muSummary'.processed = muSummary.processed + Cardinality(Current(page))
            /\ muSummary'.successful = muSummary.successful
            /\ muSummary'.error = muSummary.error
            /\ Len(muUpdates') = Len(others)
            /\ \A k \in 1..Len(muUpdates') :
                    /\ muUpdates'[k].analysis = others[k]
                    /\ muUpdates'[k].migrated =
                            chainApply(consensusSequenceMigrationChain, others[k]).res]_vars

\* A page with an analysis at the end version, one beyond it and one below it
\* has arrived.
C24_Witness ==
    /\ muPhase = "updating"
    /\ \E k \in Current(muAnalyses) : muAnalyses[k].analysisType.version = EndVersion
    /\ \E k \in Current(muAnalyses) : muAnalyses[k].analysisType.version > EndVersion
    /\ Len(muUpdates) > 0
    /\ muSummary.skipped >= 2

\* The calls of a page whose migration failed, and those whose update did.
FailedMigration(updates) == {k \in 1..Len(updates) : ~updates[k].migrated.success}
FailedUpdate(updates) ==
    {k \in 1..Len(updates) : updates[k].called /\ updates[k].response \in Responses \ {"ok"}}
Updated(updates) == {k \in 1..Len(updates) : updates[k].called /\ updates[k].response = "ok"}

\* C25: an analysis whose migration fails never reaches updateAnalysis, its
\* call resolves to the Failure of the migration, and when the page is counted
\* it adds one to error and one to processed; the page is counted in full and
\* the run does not abort. A first page of one analysis at the end version, one
\* that fails migration and one that migrates and updates leaves processed = 3,
\* successful = 1, error = 1, skipped = 1.
C25_FailedMigrationIsAnError ==
    [][/\ \A k \in FailedMigration(muUpdates') :
            /\ ~muUpdates'[k].called
            /\ muUpdates'[k].state = "settled" =>
                    muUpdates'[k].result = failure(muUpdates'[k].migrated.errors)
       /\ (muPhase = "updating" /\ muPhase' # "updating") =>
            /\ muPhase' \in {"fetching", "done"}
            /\ muSummary'.error - muSummary.error
                    = Cardinality(FailedMigration(muUpdates)) + Cardinality(FailedUpdate(muUpdates))
            /\ muSummary'.processed - muSummary.processed = Len(muUpdates)
            /\ \A k \in 1..Len(muUpdates) :
                    muUpdates[k].migrated.success => muUpdates[k].called
            /\ (/\ muFetches = 1
                /\ Len(muAnalyses) = 3
                /\ Cardinality(Current(muAnalyses)) = 1
                /\ Cardinality(FailedMigration(muUpdates)) = 1
                /\ Cardinality(Updated(muUpdates)) = 1)
               => /\ muSummary'.processed = 3 /\ muSummary'.successful = 1
                  /\ muSummary'.error = 1 /\ muSummary'.skipped = 1]_vars

\* The first page held an analysis at the end version, one of another kind and
\* one that migrated through both transforms and was updated; it has been
\* counted.
C25_Witness ==
    /\ muPhase \in {"fetching", "done"} /\ muLedger.pages = 1
    /\ muAnalyses = <<Plain(CS3), Plain(T3), Plain(T1)>>
    /\ FailedMigration(muUpdates) = {1} /\ Updated(muUpdates) = {2}
    /\ Len(Applied(muUpdates[2].migrated)) = 2
    /\ muSummary.processed = 3 /\ muSummary.error = 1

\* C26: an update call that the record store fails, or that throws, resolves to
\* a Failure and adds one to error and one to processed when the page is
\* counted; the settling of one call changes the outcome of no other call, every
\* migrated analysis of the page has had its own update call by then, each
\* successful one adds one to successful, and the loop goes on to its test
\* (next page request or return), never to the failure return.
C26_FailedUpdateIsAnError ==
    [][/\ \A k \in FailedUpdate(muUpdates') :
            /\ muUpdates'[k].state = "settled"
            /\ ~muUpdates'[k].result.success /\ Len(muUpdates'[k].result.errors) > 0
       /\ \A k \in 1..Len(muUpdates) :
            (muPhase = "updating" /\ muPhase' = "updating" /\ muUpdates[k].state = "settled")
                => muUpdates'[k] = muUpdates[k]
       /\ (muPhase = "updating" /\ muPhase' # "updating") =>
            /\ \A k \in 1..Len(muUpdates) :
                    muUpdates[k].migrated.success
                        => muUpdates[k].called /\ muUpdates[k].response \in Responses
            /\ muSummary'.successful - muSummary.successful = Cardinality(Updated(muUpdates))
            /\ muSummary'.error - muSummary.error - Cardinality(FailedMigration(muUpdates))
                    = Cardinality(FailedUpdate(muUpdates))
            /\ muPhase' = IF muOffset < muTotal THEN "fetching" ELSE "done"]_vars

\* A page of three update calls has been counted: one failed, one threw, one
\* went through; the next page has been requested.
C26_Witness ==
    /\ muPhase = "fetching" /\ muLedger.pages = 1
    /\ Len(muUpdates) = 3
    /\ \E k \in FailedUpdate(muUpdates) : muUpdates[k].response = "throws"
    /\ \E k \in FailedUpdate(muUpdates) : muUpdates[k].response = "error response"
    /\ Cardinality(Updated(muUpdates)) = 1
    /\ muSummary.error = 2 /\ muSummary.successful = 1 /\ muSummary.processed = 3

Terminated == muPhase \in {"done", "aborted"}

InFlight == {k \in 1..Len(muUpdates) : muUpdates[k].state = "running" /\ muUpdates[k].called}

\* C28: while a page request is out, every sendAnalysisUpdate call of the page
\* before has settled and the limiter is idle, so the update calls in flight at
\* any time are calls of the one page received last.
C28_PagesDoNotOverlap ==
    muPhase = "fetching" =>
        /\ \A k \in 1..Len(muUpdates) : muUpdates[k].state = "settled"
        /\ InFlight = {}
        /\ activeProcesses = 0 /\ queue = <<>>

\* The second page has been requested after a first page of three updates, of
\* which some had to wait in the limiter's queue.
C28_Witness ==
    /\ muPhase = "fetching" /\ muFetches = 2
    /\ Cardinality({k \in 1..Len(muUpdates) : muUpdates[k].called}) = 3
    /\ maxConcurrency < 3

\* The sendAnalysisUpdate calls the limiter has started and that have not
\* settled, and those waiting in its queue.
Running == {k \in 1..Len(muUpdates) : muUpdates[k].state = "running"}
Queued == {k \in 1..Len(muUpdates) : muUpdates[k].state = "queued"}

\* C29: updateAnalysis is invoked only by a call the limiter has started, the
\* calls started and not settled are as many as the limiter counts active, and
\* that number, hence the number of update calls in flight, never exceeds
\* maxConcurrent; the other calls of the page wait in the limiter's queue in
\* page order.
C29_UpdatesAreLimited ==
    /\ Cardinality(InFlight) <= maxConcurrency
    /\ Cardinality(Running) = activeProcesses
    /\ activeProcesses <= maxConcurrency
    /\ \A k \in 1..Len(muUpdates) : muUpdates[k].called => muUpdates[k].state # "queued"
    /\ Range(queue) = Queued
    /\ \A i, j \in 1..Len(queue) : i < j => queue[i] < queue[j]

\* As many update calls in flight as the limiter allows, and one more waiting.
C29_Witness ==
    /\ maxConcurrency = 2
    /\ Cardinality(InFlight) = 2
    /\ Len(queue) = 1

\* C39: when every page request succeeds and the record store stands still
\* (every page reports the same total T and holds the records from its offset
\* on, up to the page size), the run returns a summary with completed = true,
\* total = T and processed = T.
C39_EveryRecordCountedOnce ==
    (Returned /\ muPhase = "done" /\ muLedger.steady) =>
        /\ muReturned.completed
        /\ muReturned.total = muLedger.total
        /\ muReturned.processed = muLedger.total

\* A study of two records was read in two pages of one and the run returned.
C39_Witness ==
    /\ Returned /\ muPhase = "done" /\ muLedger.steady
    /\ muLedger.pages = 2 /\ muPageSize = 1 /\ muLedger.total = 2
    /\ muReturned.completed
    /\ muReturned.processed = 2
    /\ muLedger.successful = 2

\* ------------------------------------------------------- Network calls: claims

\* C30: every request a call has out carries the abort signal of a timer that
\* is set, and every call made resolves in the end, to a Failure if the remote
\* side never answers.
C30_EveryCallTimesOut ==
    /\ [](netFetch # NoFetch => netFetch.signal /\ netTimer # "none")
    /\ \A name \in Calls : (netCall = name /\ netResult = "none") ~> (netResult # "none")

====
